---- MODULE Spec2Model ----
(***************************************************************************)
(* Model of the worker unit and the pools of calebtt/impcool_sol:          *)
(*   imp::BoolCvPack           (BoolCvPack.h)                              *)
(*   imp::ThreadUnitPlusPlus   (ThreadUnitPlusPlus.h)            Spec      *)
(*   DoOrderedPause, DoUnorderedPause, DoUnpause                           *)
(*                             (ThreadConditionals.h)            SpecCond  *)
(*                             two calling threads               SpecSwitch*)
(*   impcool::ThreadUnitPlus   (ThreadUnitPlus.h)                SpecPlus  *)
(*   ThreadPool, ThreadPooler, impcool_thread_pool pushes        SpecPool  *)
(*   ThreadPooler::ResetInfiniteTaskArray                   SpecApportion  *)
(*   ThreadUnitPlusPlus called by its owner alone           FairSpecOwner  *)
(*   ThreadUnitPlus::PushInfiniteTaskBack                   SpecPush       *)
(*   ThreadPool::CreateAll, DestroyAll, GetThreadList       SpecThreads    *)
(*   imp::SafeTaskSource       (SafeTaskSource.h)           SpecSource     *)
(*   impcool::ThreadUnit       (impcool_thread_unit.h)      FairSpecFlag   *)
(* ThreadUnitFP.h carries the same threadPoolFunc, WaitForPauseCompleted,  *)
(* SetTaskSource, CreateThread, StartDestruction and WaitForDestruction,   *)
(* statement for statement.                                                *)
(*                                                                         *)
(* Three threads take steps:                                               *)
(*   "W"  the unit's std::jthread running threadPoolFunc,                  *)
(*   "A"  the thread that owns the unit and calls its public methods,      *)
(*   "B"  a second thread that calls WaitForPauseCompleted() (Spec) or the *)
(*        pause functions (SpecSwitch).                                    *)
(* One step is one atomic memory operation of the C++ code (an atomic load *)
(* or store, a mutex-protected store, a notify, a join).                   *)
(*                                                                         *)
(* std::condition_variable::wait(lock, pred) is `while (!pred()) wait(lock)`*)
(* and is modelled with a phase per thread:                                *)
(*   "run"      executing; at a wait location, about to lock and test pred *)
(*   "pre"      pred was false, the mutex is still held, not yet blocked   *)
(*   "blocked"  in the condition variable's wait set, mutex released       *)
(* notify_all moves the blocked waiters of that pack back to "run".        *)
(*                                                                         *)
(* Stop states.  Every jthread owns a fresh stop state.  A thread is only  *)
(* joined after threadPoolFunc returned, which it does only once its token *)
(* is stop-requested, so every stop state older than the newest thread's   *)
(* is stop-requested.  A stop_source handle is therefore "cur" (the stop   *)
(* state of the newest thread, whose flag is stop_requested) or "old" (an  *)
(* earlier one, always requested).                                         *)
(***************************************************************************)
EXTENDS Naturals, Sequences, FiniteSets

\* ------------------------------------------------------------------ bounds
MaxTasks == 2
NumJobs == 2
CounterCap == 2
NumThreads == 3
MaxPushes == 5
MaxBulk == 5

\* ------------------------------------------------------------------ values
Threads == {"W", "A", "B"}
Callers == {"A", "B"}
OrderedPausePack == "OrderedPausePack"
UnorderedPausePack == "UnorderedPausePack"
PauseCompletedPack == "PauseCompletedPack"
Packs == {OrderedPausePack, UnorderedPausePack, PauseCompletedPack}
nullptr == "nullptr"
Thread_t == "jthread"
nostopstate == "nostopstate"

\* The flags of a unit none of which is set.
NoFlags == [p \in Packs |-> FALSE]

\* The value of atCall while no SetTaskSource or CreateThread call is in progress.
NoCall == [flags |-> NoFlags, destroys |-> 0, thread |-> nullptr, paused |-> FALSE]

JobIds == 1..NumJobs
TaskContainer_t == UNION {[1..n -> JobIds] : n \in 0..MaxTasks}

VARIABLES
    is_condition_true,  \* [Packs -> BOOLEAN]   BoolCvPack::is_condition_true
    stop_source,        \* [Packs -> handle]    BoolCvPack::stop_source
    m_stopSource,       \* handle               ThreadUnitPlusPlus::m_stopSource
    stop_requested,     \* BOOLEAN              stop flag of the "cur" stop state
    m_workThreadObj,    \* nullptr or Thread_t  ThreadUnitPlusPlus::m_workThreadObj
    m_taskList,         \* sequence of job ids  ThreadUnitPlusPlus::m_taskList.TaskList
    tasks,              \* threadPoolFunc's by-value parameter `tasks`
    idx,                \* position of the range-for in `tasks`
    pc,                 \* [Threads -> location]
    phase,              \* [Threads -> {"run","pre","blocked"}]
    pauseReq,           \* [Callers -> BOOLEAN] local of WaitForPauseCompleted
    op,                 \* public method thread A is inside, or "none"
    newTaskList,        \* argument of the SetTaskSource call in progress
    destroys,           \* history: DestroyThread calls returned since the last creation
    stalePasses,        \* history: passes begun over a replaced list since SetTaskSource returned
    staleJobs,          \* history: jobs of a replaced list invoked since SetTaskSource returned
    replaced,           \* history: the last SetTaskSource replaced a different, non-empty list
    asked,              \* history: [request packs -> BOOLEAN] last value A passed to each setter
    armed,              \* history: A's WaitForPauseCompleted was called on a running unit with a pause asked
    atCall,             \* history: the flags, `destroys`, the thread object and whether the worker was paused when the call in progress began
    unordSeen,          \* history: an unordered pause was requested during the worker's current pass
    jobsUnderUnord,     \* history: jobs begun since the unordered request flag last became true
    invoked,            \* history: the jobs invoked so far in the worker's current pass
    unpaused,           \* history: DoUnpause returned on a paused unit and no pause was requested since
    created,            \* the value the owner's last CreateThread() call returned
    second,             \* history: the pause function thread B called last, or "none"
    isEitherPaused,     \* local of ThreadUnitPlus::PushInfiniteTaskBack
    poolClass,          \* which pool class template the pool object instantiates
    ThreadList,         \* [unit index -> sequence of job ids], the task list of each unit of the pool
    poolOp,             \* the pool operation executed last: "none", "push" or "reset"
    taskFnList,         \* argument of the last ResetInfiniteTaskArray call
    fault,              \* "none", or how the last pool operation left the program: "assert", "out_of_bounds"
    running,            \* [unit index -> BOOLEAN], whether each unit of the pool has a thread
    createResult,       \* the value the last ThreadPool::CreateAll() call returned
    m_taskMut,          \* SafeTaskSource::m_taskMut: "free", or the thread that holds it
    safeTaskList,       \* SafeTaskSource::m_taskList
    safePc,             \* position of the thread that writes the SafeTaskSource
    taskContainer,      \* argument of the write in progress (ResetTaskList's list, or the pushed job)
    listBefore,         \* history: SafeTaskSource::m_taskList when the write in progress began
    snapshot,           \* the list the reading thread obtained last
    snapBy,             \* how it obtained it: "none", "Get" or "copy"
    snapBefore,         \* history: listBefore when the snapshot was taken
    snapAfter           \* history: the list the write in progress ends with, when the snapshot was taken

unitVars == <<is_condition_true, stop_source, m_stopSource, stop_requested, m_workThreadObj, m_taskList>>
workerVars == <<tasks, idx>>
callVars == <<pauseReq, op, newTaskList>>
histVars == <<destroys, stalePasses, staleJobs, replaced, asked, armed>>
obsVars == <<atCall, unordSeen, jobsUnderUnord, invoked, unpaused>>
retVars == <<created, second>>
poolVars == <<poolClass, ThreadList, poolOp, taskFnList, fault, running, createResult>>
restVars == <<isEitherPaused, m_taskMut, safeTaskList, safePc, taskContainer, listBefore,
                snapshot, snapBy, snapBefore, snapAfter>>
vars == <<is_condition_true, stop_source, m_stopSource, stop_requested, m_workThreadObj, m_taskList,
          tasks, idx, pc, phase, pauseReq, op, newTaskList,
          destroys, stalePasses, staleJobs, replaced, asked, armed,
          atCall, unordSeen, jobsUnderUnord, invoked, unpaused,
          created, second,
          isEitherPaused,
          poolClass, ThreadList, poolOp, taskFnList, fault, running, createResult,
          m_taskMut, safeTaskList, safePc, taskContainer, listBefore,
          snapshot, snapBy, snapBefore, snapAfter>>

Bump(n) == IF n < CounterCap THEN n + 1 ELSE n

\* ------------------------------------------------------- BoolCvPack helpers
\* The pack whose condition variable a thread at a wait location uses.
WaitPack(t) ==
    CASE pc[t] \in {"either_wait_o", "unord_wait_o", "tfp_wait_o"} -> OrderedPausePack
      [] pc[t] \in {"either_wait_u", "unord_wait_u", "tfp_wait_u"} -> UnorderedPausePack
      [] pc[t] = "wfpc_wait" -> PauseCompletedPack
      [] OTHER -> "none"

\* running_mutex of pack p is held exactly by a waiter between its failed
\* predicate test and its entry into the wait set.
MutexFree(p) == \A t \in Threads : ~(phase[t] = "pre" /\ WaitPack(t) = p)

\* stop_source::stop_requested() of a handle.
StopRequestedOf(h) == IF h = "old" THEN TRUE ELSE stop_requested

\* BoolCvPack.h:88 / :101
StopPossibleAndRequested(p) == stop_source[p] # nostopstate /\ StopRequestedOf(stop_source[p])

\* task_running_cv.notify_all() of pack p applied to a phase function.
NotifyAll(ph, p) ==
    [t \in Threads |-> IF ph[t] = "blocked" /\ WaitPack(t) = p THEN "run" ELSE ph[t]]

\* BoolCvPack::GetState
GetState(p) == is_condition_true[p]

\* BoolCvPack::UpdateState: store under running_mutex, then notify_all.
UpdateState(p, trueOrEnabled) ==
    /\ MutexFree(p)
    /\ is_condition_true' = [is_condition_true EXCEPT ![p] = trueOrEnabled]
    /\ phase' = NotifyAll(phase, p)

\* One evaluation of the wait predicate under the lock: leave the wait when
\* it holds, otherwise keep the lock and go on to block.
CvWaitTest(t, p, pred, next) ==
    /\ phase[t] = "run"
    /\ MutexFree(p)
    /\ IF pred
          THEN pc' = [pc EXCEPT ![t] = next] /\ phase' = phase
          ELSE pc' = pc /\ phase' = [phase EXCEPT ![t] = "pre"]

\* BoolCvPack::WaitForFalse
WaitForFalse(t, p, next) ==
    CvWaitTest(t, p, ~is_condition_true[p] \/ StopPossibleAndRequested(p), next)

\* BoolCvPack::WaitForTrue
WaitForTrue(t, p, next) ==
    CvWaitTest(t, p, is_condition_true[p] \/ StopPossibleAndRequested(p), next)

\* condition_variable::wait(lock): release the mutex and enter the wait set.
CvBlock(t) ==
    /\ phase[t] = "pre"
    /\ phase' = [phase EXCEPT ![t] = "blocked"]
    /\ UNCHANGED <<unitVars, workerVars, pc, callVars, histVars, obsVars, retVars, poolVars, restVars>>

\* A spurious wake-up of a waiter whose wait does not test the predicate
\* again: the wait returns.
SpuriousWake_NoRecheck(t) ==
    /\ phase[t] = "blocked"
    /\ phase' = [phase EXCEPT ![t] = "run"]
    /\ pc' = [pc EXCEPT ![t] = CASE pc[t] = "either_wait_o" -> "either_wait_u"
                                  [] pc[t] = "either_wait_u" -> "either_clear"
                                  [] pc[t] = "unord_wait_o" -> "unord_wait_u"
                                  [] pc[t] = "unord_wait_u" -> "unord_clear"
                                  [] pc[t] = "wfpc_wait" -> "wfpc_ret"
                                  [] OTHER -> pc[t]]
    /\ UNCHANGED <<unitVars, workerVars, callVars, histVars, obsVars, retVars, poolVars, restVars>>

\* A spurious wake-up of a blocked waiter.
SpuriousWake(t) ==
    /\ phase[t] = "blocked"
    /\ phase' = [phase EXCEPT ![t] = "run"]
    /\ UNCHANGED <<unitVars, workerVars, pc, callVars, histVars, obsVars, retVars, poolVars, restVars>>

\* ThreadConditionals::Notify
Notify(ph) == NotifyAll(NotifyAll(NotifyAll(ph, OrderedPausePack), UnorderedPausePack), PauseCompletedPack)

\* ------------------------------------------------------------ unit queries
\* ThreadUnitPlusPlus::IsRunning
IsRunning == m_workThreadObj # nullptr /\ ~StopRequestedOf(m_stopSource)
\* ThreadUnitPlusPlus::GetPauseCompletionStatus
GetPauseCompletionStatus == GetState(PauseCompletedPack)
\* ThreadUnitPlusPlus::GetNumberOfTasks
GetNumberOfTasks == Len(m_taskList)

\* The unit is running, no pause is requested and the owner is in no call.
Quiet ==
    /\ op = "none" /\ IsRunning
    /\ ~GetState(OrderedPausePack) /\ ~GetState(UnorderedPausePack)

\* A pass or a job is stale when the worker's copy differs from the unit's
\* current list and no SetTaskSource call is still in progress.
Stale == tasks # m_taskList /\ op # "SetTaskSource"

\* ----------------------------------------------------------- threadPoolFunc
Goto(t, l) == pc' = [pc EXCEPT ![t] = l]

\* The worker is inside the range-for over `tasks` (a pass).
InPass == pc["W"] \in {"unord_test", "unord_set", "unord_wait_o", "unord_wait_u",
                       "unord_clear", "stop_test", "in_job"}

\* while (!stopToken.stop_requested())
Worker_While ==
    /\ pc["W"] = "while_test"
    /\ Goto("W", IF stop_requested THEN "returned" ELSE "either_test_o")
    /\ UNCHANGED <<unitVars, workerVars, phase, callVars, histVars, obsVars, retVars, poolVars, restVars>>

\* TestAndWaitForPauseEither: OrderedPausePack.GetState() || ...
Either_TestOrdered ==
    /\ pc["W"] = "either_test_o"
    /\ Goto("W", IF GetState(OrderedPausePack) THEN "either_set" ELSE "either_test_u")
    /\ UNCHANGED <<unitVars, workerVars, phase, callVars, histVars, obsVars, retVars, poolVars, restVars>>

\* ... || UnorderedPausePack.GetState()
Either_TestUnordered ==
    /\ pc["W"] = "either_test_u"
    /\ Goto("W", IF GetState(UnorderedPausePack) THEN "either_set" ELSE "empty_test")
    /\ UNCHANGED <<unitVars, workerVars, phase, callVars, histVars, obsVars, retVars, poolVars, restVars>>

\* PauseCompletedPack.UpdateState(true)
Either_SetCompleted ==
    /\ pc["W"] = "either_set"
    /\ UpdateState(PauseCompletedPack, TRUE)
    /\ Goto("W", "either_wait_o")
    /\ UNCHANGED <<stop_source, m_stopSource, stop_requested, m_workThreadObj, m_taskList,
                   workerVars, callVars, histVars, obsVars, retVars, poolVars, restVars>>

\* WaitForBothPauseRequestsFalse: OrderedPausePack.WaitForFalse()
Either_WaitOrdered ==
    /\ pc["W"] = "either_wait_o"
    /\ WaitForFalse("W", OrderedPausePack, "either_wait_u")
    /\ UNCHANGED <<unitVars, workerVars, callVars, histVars, obsVars, retVars, poolVars, restVars>>

\* WaitForBothPauseRequestsFalse: UnorderedPausePack.WaitForFalse()
Either_WaitUnordered ==
    /\ pc["W"] = "either_wait_u"
    /\ WaitForFalse("W", UnorderedPausePack, "either_clear")
    /\ UNCHANGED <<unitVars, workerVars, callVars, histVars, obsVars, retVars, poolVars, restVars>>

\* PauseCompletedPack.UpdateState(false)
Either_ClearCompleted ==
    /\ pc["W"] = "either_clear"
    /\ UpdateState(PauseCompletedPack, FALSE)
    /\ Goto("W", "empty_test")
    /\ UNCHANGED <<stop_source, m_stopSource, stop_requested, m_workThreadObj, m_taskList,
                   workerVars, callVars, histVars, obsVars, retVars, poolVars, restVars>>

\* if (tasks.empty()) sleep_for(EmptyWaitTime); then the range-for begins.
Worker_BeginPass ==
    /\ pc["W"] = "empty_test"
    /\ IF tasks = <<>>
          THEN Goto("W", "while_test") /\ idx' = 0
          ELSE Goto("W", "unord_test") /\ idx' = 1
    /\ stalePasses' = IF Stale THEN Bump(stalePasses) ELSE stalePasses
    /\ unordSeen' = (tasks # <<>> /\ GetState(UnorderedPausePack))
    /\ invoked' = <<>>
    /\ UNCHANGED <<unitVars, tasks, phase, callVars, destroys, staleJobs, replaced, asked, armed,
                   atCall, jobsUnderUnord, unpaused, retVars, poolVars, restVars>>

\* The per-job checkpoint testing either request flag, as the per-pass one does.
UnorderedCheckpointRequested_Either == GetState(OrderedPausePack) \/ GetState(UnorderedPausePack)

\* The per-job checkpoint testing the ordered request flag only.
UnorderedCheckpointRequested_Ordered == GetState(OrderedPausePack)

\* TestAndWaitForPauseUnordered: the condition of its if statement.
UnorderedCheckpointRequested == GetState(UnorderedPausePack)

\* TestAndWaitForPauseUnordered: if (UnorderedPausePack.GetState())
Unord_Test ==
    /\ pc["W"] = "unord_test"
    /\ Goto("W", IF UnorderedCheckpointRequested THEN "unord_set" ELSE "stop_test")
    /\ UNCHANGED <<unitVars, workerVars, phase, callVars, histVars, obsVars, retVars, poolVars, restVars>>

\* PauseCompletedPack.UpdateState(true)
Unord_SetCompleted ==
    /\ pc["W"] = "unord_set"
    /\ UpdateState(PauseCompletedPack, TRUE)
    /\ Goto("W", "unord_wait_o")
    /\ UNCHANGED <<stop_source, m_stopSource, stop_requested, m_workThreadObj, m_taskList,
                   workerVars, callVars, histVars, obsVars, retVars, poolVars, restVars>>

Unord_WaitOrdered ==
    /\ pc["W"] = "unord_wait_o"
    /\ WaitForFalse("W", OrderedPausePack, "unord_wait_u")
    /\ UNCHANGED <<unitVars, workerVars, callVars, histVars, obsVars, retVars, poolVars, restVars>>

Unord_WaitUnordered ==
    /\ pc["W"] = "unord_wait_u"
    /\ WaitForFalse("W", UnorderedPausePack, "unord_clear")
    /\ UNCHANGED <<unitVars, workerVars, callVars, histVars, obsVars, retVars, poolVars, restVars>>

\* pauseObj.UnorderedPausePack.UpdateState(false): the unordered checkpoint
\* resets UnorderedPausePack on release, not PauseCompletedPack.
Unord_Release ==
    /\ pc["W"] = "unord_clear"
    /\ UpdateState(UnorderedPausePack, FALSE)
    /\ Goto("W", "stop_test")
    /\ jobsUnderUnord' = 0
    /\ UNCHANGED <<stop_source, m_stopSource, stop_requested, m_workThreadObj, m_taskList,
                   workerVars, callVars, histVars, atCall, unordSeen, invoked, unpaused, retVars, poolVars, restVars>>

\* The range-for visiting the list from its last element to its first.
CurrentTask_Reversed == tasks[Len(tasks) + 1 - idx]

\* for (const auto& currentTask : tasks): the element the loop is at.
CurrentTask == tasks[idx]

\* The range-for without the cancellation re-check: currentTask() is entered.
Worker_StopTest_NoRecheck ==
    /\ pc["W"] = "stop_test"
    /\ Goto("W", "in_job")
    /\ staleJobs' = IF Stale THEN Bump(staleJobs) ELSE staleJobs
    /\ jobsUnderUnord' = IF GetState(UnorderedPausePack) THEN Bump(jobsUnderUnord) ELSE 0
    /\ invoked' = Append(invoked, CurrentTask)
    /\ UNCHANGED <<unitVars, workerVars, phase, callVars, destroys, stalePasses, replaced, asked, armed,
                   atCall, unordSeen, unpaused, retVars, poolVars, restVars>>

\* if (stopToken.stop_requested()) break;  otherwise currentTask() is entered.
Worker_StopTest ==
    /\ pc["W"] = "stop_test"
    /\ IF stop_requested
          THEN /\ Goto("W", "while_test")
               /\ staleJobs' = staleJobs
               /\ jobsUnderUnord' = jobsUnderUnord
               /\ invoked' = <<>>
               /\ unordSeen' = FALSE
          ELSE /\ Goto("W", "in_job")
               /\ staleJobs' = IF Stale THEN Bump(staleJobs) ELSE staleJobs
               /\ jobsUnderUnord' = IF GetState(UnorderedPausePack) THEN Bump(jobsUnderUnord) ELSE 0
               /\ invoked' = Append(invoked, CurrentTask)
               /\ unordSeen' = unordSeen
    /\ UNCHANGED <<unitVars, workerVars, phase, callVars, destroys, stalePasses, replaced, asked, armed,
                   atCall, unpaused, retVars, poolVars, restVars>>

\* currentTask() returns; the range-for advances or ends.
Worker_JobReturns ==
    /\ pc["W"] = "in_job"
    /\ IF idx < Len(tasks)
          THEN Goto("W", "unord_test") /\ idx' = idx + 1 /\ UNCHANGED <<invoked, unordSeen>>
          ELSE Goto("W", "while_test") /\ idx' = 0 /\ invoked' = <<>> /\ unordSeen' = FALSE
    /\ UNCHANGED <<unitVars, tasks, phase, callVars, histVars, atCall, jobsUnderUnord, unpaused, retVars, poolVars, restVars>>

threadPoolFunc ==
    \/ Worker_While
    \/ Either_TestOrdered
    \/ Either_TestUnordered
    \/ Either_SetCompleted
    \/ Either_WaitOrdered
    \/ Either_WaitUnordered
    \/ Either_ClearCompleted
    \/ Worker_BeginPass
    \/ Unord_Test
    \/ Unord_SetCompleted
    \/ Unord_WaitOrdered
    \/ Unord_WaitUnordered
    \/ Unord_Release
    \/ Worker_StopTest
    \/ Worker_JobReturns
    \/ CvBlock("W")

\* ------------------------------------------------- WaitForPauseCompleted
\* pauseReq = OrderedPausePack.GetState() || ...   (the call begins here)
Wfpc_ReadOrdered(t) ==
    /\ pc[t] = "idle"
    /\ pauseReq' = [pauseReq EXCEPT ![t] = GetState(OrderedPausePack)]
    /\ Goto(t, IF GetState(OrderedPausePack) THEN "wfpc_read_c" ELSE "wfpc_read_u")
    /\ IF t = "A"
          THEN /\ op' = "WaitForPauseCompleted"
               /\ armed' = (IsRunning /\ (asked[OrderedPausePack] \/ asked[UnorderedPausePack]))
          ELSE UNCHANGED <<op, armed>>
    /\ UNCHANGED <<unitVars, workerVars, phase, newTaskList, destroys, stalePasses, staleJobs, replaced, asked, obsVars, retVars, poolVars, restVars>>

\* ... || UnorderedPausePack.GetState()
Wfpc_ReadUnordered(t) ==
    /\ pc[t] = "wfpc_read_u"
    /\ pauseReq' = [pauseReq EXCEPT ![t] = GetState(UnorderedPausePack)]
    /\ Goto(t, "wfpc_read_c")
    /\ UNCHANGED <<unitVars, workerVars, phase, op, newTaskList, histVars, obsVars, retVars, poolVars, restVars>>

\* WaitForPauseCompleted waiting whenever the pause has not completed,
\* whether or not a pause was requested.
needsToWaitAndPauseReq_NoRequestTest(t) == ~GetState(PauseCompletedPack)

\* needsToWait = !PauseCompletedPack.GetState(); the condition needsToWait && pauseReq
needsToWaitAndPauseReq(t) == ~GetState(PauseCompletedPack) /\ pauseReq[t]

\* if (needsToWait && pauseReq)
Wfpc_ReadCompleted(t) ==
    /\ pc[t] = "wfpc_read_c"
    /\ Goto(t, IF needsToWaitAndPauseReq(t) THEN "wfpc_wait" ELSE "wfpc_ret")
    /\ UNCHANGED <<unitVars, workerVars, phase, callVars, histVars, obsVars, retVars, poolVars, restVars>>

\* PauseCompletedPack.WaitForTrue()
Wfpc_Wait(t) ==
    /\ pc[t] = "wfpc_wait"
    /\ WaitForTrue(t, PauseCompletedPack, "wfpc_ret")
    /\ UNCHANGED <<unitVars, workerVars, callVars, histVars, obsVars, retVars, poolVars, restVars>>

\* WaitForPauseCompleted returns to its caller.
Wfpc_Return(t) ==
    /\ pc[t] = "wfpc_ret"
    /\ Goto(t, "idle")
    /\ pauseReq' = [pauseReq EXCEPT ![t] = FALSE]
    /\ op' = IF t = "A" THEN "none" ELSE op
    /\ UNCHANGED <<unitVars, workerVars, phase, newTaskList, histVars, obsVars, retVars, poolVars, restVars>>

WaitForPauseCompleted(t) ==
    \/ Wfpc_ReadOrdered(t)
    \/ Wfpc_ReadUnordered(t)
    \/ Wfpc_ReadCompleted(t)
    \/ Wfpc_Wait(t)
    \/ Wfpc_Return(t)
    \/ CvBlock(t)

\* ------------------------------------------------------------ pause setters
\* ThreadUnitPlusPlus::SetPauseValueOrdered
SetPauseValueOrdered(enablePause) ==
    /\ pc["A"] = "idle"
    /\ UpdateState(OrderedPausePack, enablePause)
    /\ asked' = [asked EXCEPT ![OrderedPausePack] = enablePause]
    /\ armed' = FALSE
    /\ UNCHANGED <<stop_source, m_stopSource, stop_requested, m_workThreadObj, m_taskList,
                   workerVars, pc, callVars, destroys, stalePasses, staleJobs, replaced, obsVars, retVars, poolVars, restVars>>

\* ThreadUnitPlusPlus::SetPauseValueUnordered
SetPauseValueUnordered(enablePause) ==
    /\ pc["A"] = "idle"
    /\ UpdateState(UnorderedPausePack, enablePause)
    /\ asked' = [asked EXCEPT ![UnorderedPausePack] = enablePause]
    /\ armed' = FALSE
    /\ unordSeen' = (unordSeen \/ (enablePause /\ InPass))
    /\ jobsUnderUnord' = IF enablePause THEN jobsUnderUnord ELSE 0
    /\ UNCHANGED <<stop_source, m_stopSource, stop_requested, m_workThreadObj, m_taskList,
                   workerVars, pc, callVars, destroys, stalePasses, staleJobs, replaced,
                   atCall, invoked, unpaused, retVars, poolVars, restVars>>

\* ------------------------------------- SetTaskSource / DestroyThread / helpers
\* m_stopSource.request_stop()
RequestStop == IF m_stopSource = "cur" THEN TRUE ELSE stop_requested

\* SetTaskSource without the stop/join/recreate cycle: only the member list changes.
SetTaskSource_NoRestart(newList) ==
    /\ pc["A"] = "idle"
    /\ m_taskList' = newList
    /\ destroys' = 0 /\ stalePasses' = 0 /\ staleJobs' = 0
    /\ replaced' = (IsRunning /\ m_taskList # <<>> /\ newList # m_taskList)
    /\ asked' = asked /\ armed' = FALSE
    /\ UNCHANGED <<is_condition_true, stop_source, m_stopSource, stop_requested, m_workThreadObj,
                   workerVars, pc, phase, callVars, obsVars, retVars, poolVars, restVars>>

\* ThreadUnitPlusPlus::SetTaskSource is called; StartDestruction requests the stop.
SetTaskSource(newList) ==
    /\ pc["A"] = "idle"
    /\ op' = "SetTaskSource"
    /\ newTaskList' = newList
    /\ stop_requested' = RequestStop
    /\ Goto("A", "sd_notify")
    /\ destroys' = 0 /\ stalePasses' = 0 /\ staleJobs' = 0
    /\ replaced' = (IsRunning /\ m_taskList # <<>> /\ newList # m_taskList)
    /\ asked' = [p \in {OrderedPausePack, UnorderedPausePack} |-> FALSE]
    /\ armed' = FALSE
    /\ atCall' = [flags |-> is_condition_true, destroys |-> destroys, thread |-> m_workThreadObj,
                  paused |-> (is_condition_true[PauseCompletedPack]
                              /\ pc["W"] \in {"either_wait_o", "either_wait_u",
                                              "unord_wait_o", "unord_wait_u"})]
    /\ UNCHANGED <<is_condition_true, stop_source, m_stopSource, m_workThreadObj, m_taskList,
                   workerVars, phase, pauseReq,
                   unordSeen, jobsUnderUnord, invoked, unpaused, retVars, poolVars, restVars>>

\* ThreadUnitPlusPlus::DestroyThread is called; StartDestruction requests the stop.
DestroyThread ==
    /\ pc["A"] = "idle"
    /\ op' = "DestroyThread"
    /\ stop_requested' = RequestStop
    /\ Goto("A", "sd_notify")
    /\ armed' = FALSE
    /\ UNCHANGED <<is_condition_true, stop_source, m_stopSource, m_workThreadObj, m_taskList,
                   workerVars, phase, pauseReq, newTaskList,
                   destroys, stalePasses, staleJobs, replaced, asked, obsVars, retVars, poolVars, restVars>>

\* StartDestruction: m_conditionalsPack.Notify()
StartDestruction_Notify ==
    /\ pc["A"] = "sd_notify"
    /\ phase' = Notify(phase)
    /\ Goto("A", IF op = "PushInfiniteTaskBack" THEN "pb_read" ELSE "wd")
    /\ UNCHANGED <<unitVars, workerVars, callVars, histVars, obsVars, retVars, poolVars, restVars>>

\* Where the caller of WaitForDestruction continues.
AfterDestruction ==
    CASE op = "SetTaskSource" -> "sts_assign"
      [] op = "PushInfiniteTaskBack" -> "ct_completed"
      [] OTHER -> "dt_clear"

\* WaitForDestruction letting go of the thread object without joining it.
WaitForDestruction_Detach ==
    /\ pc["A"] = "wd"
    /\ m_workThreadObj # nullptr
    /\ m_workThreadObj' = nullptr
    /\ pc' = [pc EXCEPT !["A"] = AfterDestruction]
    /\ UNCHANGED <<is_condition_true, stop_source, m_stopSource, stop_requested, m_taskList,
                   tasks, idx, phase, callVars, histVars, obsVars, retVars, poolVars, restVars>>

\* WaitForDestruction: join() returns once threadPoolFunc has returned; reset().
WaitForDestruction_Join ==
    /\ pc["A"] = "wd"
    /\ m_workThreadObj # nullptr
    /\ pc["W"] = "returned"
    /\ m_workThreadObj' = nullptr
    /\ pc' = [pc EXCEPT !["A"] = AfterDestruction, !["W"] = "none"]
    /\ idx' = 0
    /\ UNCHANGED <<is_condition_true, stop_source, m_stopSource, stop_requested, m_taskList,
                   tasks, phase, callVars, histVars, obsVars, retVars, poolVars, restVars>>

\* WaitForDestruction: m_workThreadObj == nullptr, nothing to join.
WaitForDestruction_NoThread ==
    /\ pc["A"] = "wd"
    /\ m_workThreadObj = nullptr
    /\ Goto("A", AfterDestruction)
    /\ UNCHANGED <<unitVars, workerVars, phase, callVars, histVars, obsVars, retVars, poolVars, restVars>>

\* The value DestroyThread stores into m_taskList.TaskList, left unchanged.
ClearedTaskList_Keep == m_taskList

\* m_taskList.TaskList = {}
ClearedTaskList == <<>>

\* DestroyThread: clear the task source and return.
DestroyThread_Clear ==
    /\ pc["A"] = "dt_clear"
    /\ m_taskList' = ClearedTaskList
    /\ tasks' = <<>>
    /\ Goto("A", "idle")
    /\ op' = "none"
    /\ destroys' = Bump(destroys)
    /\ UNCHANGED <<is_condition_true, stop_source, m_stopSource, stop_requested, m_workThreadObj,
                   idx, phase, pauseReq, newTaskList, stalePasses, staleJobs, replaced, asked, armed, obsVars, retVars, poolVars, restVars>>

\* SetTaskSource: m_taskList = newTaskList
SetTaskSource_Assign ==
    /\ pc["A"] = "sts_assign"
    /\ m_taskList' = newTaskList
    /\ Goto("A", "ct_completed")
    /\ UNCHANGED <<is_condition_true, stop_source, m_stopSource, stop_requested, m_workThreadObj,
                   workerVars, phase, callVars, histVars, obsVars, retVars, poolVars, restVars>>

\* CreateThread's parameter: PushInfiniteTaskBack passes isEitherPaused, every
\* other caller leaves the default argument.
isPausedOnStart == IF op = "PushInfiniteTaskBack" THEN isEitherPaused ELSE FALSE

\* The value CreateThread stores into PauseCompletedPack, left as it was.
CompletedOnStart_Keep == is_condition_true[PauseCompletedPack]

\* The argument of PauseCompletedPack.UpdateState(false) in CreateThread.
CompletedOnStart == FALSE

\* CreateThread without its test: it goes on whether or not a thread exists.
NoWorkThread_Unchecked == TRUE

\* CreateThread: m_workThreadObj == nullptr
NoWorkThread == m_workThreadObj = nullptr

\* CreateThread: if (m_workThreadObj == nullptr) PauseCompletedPack.UpdateState(false)
\* else return false.
CreateThread_ResetCompleted ==
    /\ pc["A"] = "ct_completed"
    /\ IF NoWorkThread
          THEN /\ UpdateState(PauseCompletedPack, CompletedOnStart)
               /\ Goto("A", "ct_ordered")
               /\ op' = op
               /\ atCall' = atCall
               /\ created' = created
          ELSE /\ Goto("A", "idle")
               /\ op' = "none"
               /\ atCall' = NoCall
               /\ created' = FALSE
               /\ UNCHANGED <<is_condition_true, phase>>
    /\ UNCHANGED <<stop_source, m_stopSource, stop_requested, m_workThreadObj, m_taskList,
                   workerVars, pauseReq, newTaskList, histVars,
                   unordSeen, jobsUnderUnord, invoked, unpaused, second, poolVars, restVars>>

\* OrderedPausePack.UpdateState(isPausedOnStart)
CreateThread_ResetOrdered ==
    /\ pc["A"] = "ct_ordered"
    /\ UpdateState(OrderedPausePack, isPausedOnStart)
    /\ Goto("A", "ct_unordered")
    /\ UNCHANGED <<stop_source, m_stopSource, stop_requested, m_workThreadObj, m_taskList,
                   workerVars, callVars, histVars, obsVars, retVars, poolVars, restVars>>

\* UnorderedPausePack.UpdateState(false)
CreateThread_ResetUnordered ==
    /\ pc["A"] = "ct_unordered"
    /\ UpdateState(UnorderedPausePack, FALSE)
    /\ Goto("A", "ct_make")
    /\ jobsUnderUnord' = 0
    /\ UNCHANGED <<stop_source, m_stopSource, stop_requested, m_workThreadObj, m_taskList,
                   workerVars, callVars, histVars, atCall, unordSeen, invoked, unpaused, retVars, poolVars, restVars>>

\* The list a new thread runs, taken from the previous thread's copy.
ThreadTasks_Previous == tasks

\* threadPoolFunc(st, tasks.TaskList): the copy of CreateThread's parameter;
\* ThreadUnitPlus::CreateThread passes m_taskListPtr->TaskList.
ThreadTasks == IF op \in {"CreateThread", "PushInfiniteTaskBack"} THEN m_taskList ELSE newTaskList

\* A handle to what was the newest stop state refers to an older one once a
\* new thread (with a new stop state) exists.
Aged(h) == IF h = "cur" THEN "old" ELSE h

\* m_workThreadObj = std::make_unique<Thread_t>(...): the thread starts.
CreateThread_MakeThread ==
    /\ pc["A"] = "ct_make"
    /\ m_workThreadObj' = Thread_t
    /\ stop_requested' = FALSE
    /\ m_stopSource' = Aged(m_stopSource)
    /\ stop_source' = [p \in Packs |-> Aged(stop_source[p])]
    /\ tasks' = ThreadTasks
    /\ idx' = 0
    /\ pc' = [pc EXCEPT !["A"] = "ct_stop", !["W"] = "while_test"]
    /\ UNCHANGED <<is_condition_true, m_taskList, phase, callVars, histVars, obsVars, retVars, poolVars, restVars>>

\* m_stopSource = m_workThreadObj->get_stop_source()
CreateThread_GetStopSource ==
    /\ pc["A"] = "ct_stop"
    /\ m_stopSource' = "cur"
    /\ Goto("A", "ct_packs")
    /\ UNCHANGED <<is_condition_true, stop_source, stop_requested, m_workThreadObj, m_taskList,
                   workerVars, phase, callVars, histVars, obsVars, retVars, poolVars, restVars>>

\* m_conditionalsPack.SetStopSource(m_stopSource); CreateThread returns true
\* (and with it SetTaskSource).
CreateThread_SetStopSource ==
    /\ pc["A"] = "ct_packs"
    /\ stop_source' = [p \in Packs |-> m_stopSource]
    /\ Goto("A", "idle")
    /\ op' = "none"
    /\ atCall' = NoCall
    /\ created' = IF op = "CreateThread" THEN TRUE ELSE created
    /\ UNCHANGED <<is_condition_true, m_stopSource, stop_requested, m_workThreadObj, m_taskList,
                   workerVars, phase, pauseReq, newTaskList, histVars,
                   unordSeen, jobsUnderUnord, invoked, unpaused, second, poolVars, restVars>>

\* --------------------------------------------------------------- the system
\* The state after ThreadUnitPlusPlus(taskList) has been constructed.
UnitInit(taskList) ==
    /\ m_taskList = taskList
    /\ tasks = m_taskList
    /\ idx = 0
    /\ is_condition_true = [p \in Packs |-> FALSE]
    /\ stop_source = [p \in Packs |-> "cur"]
    /\ m_stopSource = "cur"
    /\ stop_requested = FALSE
    /\ m_workThreadObj = Thread_t
    /\ pc = [t \in Threads |-> IF t = "W" THEN "while_test" ELSE "idle"]
    /\ phase = [t \in Threads |-> "run"]
    /\ pauseReq = [t \in Callers |-> FALSE]
    /\ op = "none"
    /\ newTaskList = <<>>
    /\ destroys = 0 /\ stalePasses = 0 /\ staleJobs = 0
    /\ replaced = FALSE
    /\ asked = [p \in {OrderedPausePack, UnorderedPausePack} |-> FALSE]
    /\ armed = FALSE
    /\ atCall = NoCall
    /\ unordSeen = FALSE
    /\ jobsUnderUnord = 0
    /\ invoked = <<>>
    /\ unpaused = FALSE
    /\ created = FALSE
    /\ second = "none"
    /\ isEitherPaused = FALSE

\* A default-constructed pool: every unit has an empty task list.
PoolInit(class) ==
    /\ poolClass = class
    /\ ThreadList = [i \in 1..NumThreads |-> <<>>]
    /\ poolOp = "none"
    /\ taskFnList = <<>>
    /\ fault = "none"
    /\ running = [i \in 1..NumThreads |-> TRUE]
    /\ createResult = FALSE

\* A SafeTaskSource constructed from taskList, with no call in progress.
SourceInit(taskList) ==
    /\ m_taskMut = "free"
    /\ safeTaskList = taskList
    /\ safePc = "idle"
    /\ taskContainer = <<>>
    /\ listBefore = taskList
    /\ snapshot = <<>>
    /\ snapBy = "none"
    /\ snapBefore = <<>>
    /\ snapAfter = <<>>

Init ==
    /\ \E taskList \in TaskContainer_t : UnitInit(taskList)
    /\ PoolInit("ThreadPool")
    /\ SourceInit(<<>>)

OwnerCall ==
    \/ \E b \in BOOLEAN : SetPauseValueOrdered(b)
    \/ \E b \in BOOLEAN : SetPauseValueUnordered(b)
    \/ \E newList \in TaskContainer_t : SetTaskSource(newList)
    \/ DestroyThread

OwnerStep ==
    \/ StartDestruction_Notify
    \/ WaitForDestruction_Join
    \/ WaitForDestruction_NoThread
    \/ DestroyThread_Clear
    \/ SetTaskSource_Assign
    \/ CreateThread_ResetCompleted
    \/ CreateThread_ResetOrdered
    \/ CreateThread_ResetUnordered
    \/ CreateThread_MakeThread
    \/ CreateThread_GetStopSource
    \/ CreateThread_SetStopSource

Next ==
    \/ threadPoolFunc
    \/ OwnerCall
    \/ OwnerStep
    \/ WaitForPauseCompleted("A")
    \/ WaitForPauseCompleted("B")
    \/ \E t \in Threads : SpuriousWake(t)

Spec == Init /\ [][Next]_vars

\* Steps of a call already in progress on thread t.
CallProgress(t) ==
    \/ Wfpc_ReadUnordered(t)
    \/ Wfpc_ReadCompleted(t)
    \/ Wfpc_Wait(t)
    \/ Wfpc_Return(t)
    \/ CvBlock(t)

\* Scheduling: a thread that can take a step eventually takes it, so the
\* worker and every call in progress advance unless they are blocked.
\* Beginning a new call is the caller's choice and a spurious wake-up is
\* never guaranteed, so neither is subject to fairness.
FairSpec ==
    /\ Spec
    /\ SF_vars(threadPoolFunc)
    /\ SF_vars(OwnerStep)
    /\ SF_vars(CallProgress("A"))
    /\ SF_vars(CallProgress("B"))

\* The unit used by its owner alone: no second thread calls in.
NextOwner ==
    \/ threadPoolFunc
    \/ OwnerCall
    \/ OwnerStep
    \/ WaitForPauseCompleted("A")
    \/ \E t \in {"W", "A"} : SpuriousWake(t)

FairSpecOwner ==
    /\ Init
    /\ [][NextOwner]_vars
    /\ SF_vars(threadPoolFunc)
    /\ SF_vars(OwnerStep)
    /\ SF_vars(CallProgress("A"))

\* ------------------------------------------------------------ ThreadUnitPlus
\* impcool::ThreadUnitPlus has the same threadPoolFunc, pause setters,
\* WaitForPauseCompleted and DestroyThread; its constructor starts no thread
\* and CreateThread is a public method.

\* The state after ThreadUnitPlus(taskContainer) has been constructed.
ThreadUnitPlusInit(taskList) ==
    /\ m_taskList = taskList
    /\ tasks = <<>>
    /\ idx = 0
    /\ is_condition_true = [p \in Packs |-> FALSE]
    /\ stop_source = [p \in Packs |-> nostopstate]
    /\ m_stopSource = "cur"
    /\ stop_requested = FALSE
    /\ m_workThreadObj = nullptr
    /\ pc = [t \in Threads |-> IF t = "W" THEN "none" ELSE "idle"]
    /\ phase = [t \in Threads |-> "run"]
    /\ pauseReq = [t \in Callers |-> FALSE]
    /\ op = "none"
    /\ newTaskList = <<>>
    /\ destroys = 0 /\ stalePasses = 0 /\ staleJobs = 0
    /\ replaced = FALSE
    /\ asked = [p \in {OrderedPausePack, UnorderedPausePack} |-> FALSE]
    /\ armed = FALSE
    /\ atCall = NoCall
    /\ unordSeen = FALSE
    /\ jobsUnderUnord = 0
    /\ invoked = <<>>
    /\ unpaused = FALSE
    /\ created = FALSE
    /\ second = "none"
    /\ isEitherPaused = FALSE

\* ThreadUnitPlus::CreateThread() is called by the owner.
CreateThread ==
    /\ pc["A"] = "idle"
    /\ op' = "CreateThread"
    /\ Goto("A", "ct_completed")
    /\ atCall' = [flags |-> is_condition_true, destroys |-> destroys, thread |-> m_workThreadObj,
                  paused |-> (is_condition_true[PauseCompletedPack]
                              /\ pc["W"] \in {"either_wait_o", "either_wait_u",
                                              "unord_wait_o", "unord_wait_u"})]
    /\ destroys' = 0 /\ stalePasses' = 0 /\ staleJobs' = 0
    /\ replaced' = FALSE
    /\ asked' = IF m_workThreadObj = nullptr
                   THEN [p \in {OrderedPausePack, UnorderedPausePack} |-> FALSE]
                   ELSE asked
    /\ armed' = FALSE
    /\ UNCHANGED <<unitVars, workerVars, phase, pauseReq, newTaskList,
                   unordSeen, jobsUnderUnord, invoked, unpaused, retVars, poolVars, restVars>>

InitPlus ==
    /\ \E taskList \in TaskContainer_t : ThreadUnitPlusInit(taskList)
    /\ PoolInit("ThreadPool")
    /\ SourceInit(<<>>)

PlusCall ==
    \/ \E b \in BOOLEAN : SetPauseValueOrdered(b)
    \/ \E b \in BOOLEAN : SetPauseValueUnordered(b)
    \/ CreateThread
    \/ DestroyThread

PlusStep ==
    \/ StartDestruction_Notify
    \/ WaitForDestruction_Join
    \/ WaitForDestruction_NoThread
    \/ DestroyThread_Clear
    \/ CreateThread_ResetCompleted
    \/ CreateThread_ResetOrdered
    \/ CreateThread_ResetUnordered
    \/ CreateThread_MakeThread
    \/ CreateThread_GetStopSource
    \/ CreateThread_SetStopSource

NextPlus ==
    \/ threadPoolFunc
    \/ PlusCall
    \/ PlusStep
    \/ WaitForPauseCompleted("A")
    \/ \E t \in {"W", "A"} : SpuriousWake(t)

SpecPlus == InitPlus /\ [][NextPlus]_vars

\* ThreadUnitPlus::PushInfiniteTaskBack(taskFn) is called; StartDestruction
\* requests the stop.
PushInfiniteTaskBack(taskFn) ==
    /\ pc["A"] = "idle"
    /\ Len(m_taskList) < MaxTasks
    /\ op' = "PushInfiniteTaskBack"
    /\ newTaskList' = Append(m_taskList, taskFn)
    /\ stop_requested' = RequestStop
    /\ Goto("A", "sd_notify")
    /\ atCall' = [flags |-> is_condition_true, destroys |-> destroys, thread |-> m_workThreadObj,
                  paused |-> (is_condition_true[PauseCompletedPack]
                              /\ pc["W"] \in {"either_wait_o", "either_wait_u",
                                              "unord_wait_o", "unord_wait_u"})]
    /\ destroys' = 0 /\ stalePasses' = 0 /\ staleJobs' = 0
    /\ replaced' = FALSE
    /\ armed' = FALSE
    /\ UNCHANGED <<is_condition_true, stop_source, m_stopSource, m_workThreadObj, m_taskList,
                   workerVars, phase, pauseReq, asked,
                   unordSeen, jobsUnderUnord, invoked, unpaused, retVars, poolVars, restVars>>

\* const bool isEitherPaused = GetPauseCompletionStatus();
PushBack_ReadCompleted ==
    /\ pc["A"] = "pb_read"
    /\ isEitherPaused' = GetPauseCompletionStatus
    /\ Goto("A", "pb_unordered")
    /\ UNCHANGED <<unitVars, workerVars, phase, callVars, histVars, obsVars, retVars, poolVars,
                   m_taskMut, safeTaskList, safePc, taskContainer, listBefore,
                   snapshot, snapBy, snapBefore, snapAfter>>

\* SetPauseValueUnordered(false)
PushBack_ClearUnordered ==
    /\ pc["A"] = "pb_unordered"
    /\ UpdateState(UnorderedPausePack, FALSE)
    /\ Goto("A", "pb_ordered")
    /\ jobsUnderUnord' = 0
    /\ UNCHANGED <<stop_source, m_stopSource, stop_requested, m_workThreadObj, m_taskList,
                   workerVars, callVars, histVars, atCall, unordSeen, invoked, unpaused, retVars, poolVars, restVars>>

\* SetPauseValueOrdered(false)
PushBack_ClearOrdered ==
    /\ pc["A"] = "pb_ordered"
    /\ UpdateState(OrderedPausePack, FALSE)
    /\ Goto("A", "pb_push")
    /\ UNCHANGED <<stop_source, m_stopSource, stop_requested, m_workThreadObj, m_taskList,
                   workerVars, callVars, histVars, obsVars, retVars, poolVars, restVars>>

\* m_taskListPtr->PushInfiniteTaskBack(taskFn, args...)
PushBack_Push ==
    /\ pc["A"] = "pb_push"
    /\ m_taskList' = newTaskList
    /\ Goto("A", "wd")
    /\ UNCHANGED <<is_condition_true, stop_source, m_stopSource, stop_requested, m_workThreadObj,
                   workerVars, phase, callVars, histVars, obsVars, retVars, poolVars, restVars>>

\* ThreadUnitPlus with PushInfiniteTaskBack among the owner's calls.
NextPush ==
    \/ NextPlus
    \/ \E taskFn \in JobIds : PushInfiniteTaskBack(taskFn)
    \/ PushBack_ReadCompleted
    \/ PushBack_ClearUnordered
    \/ PushBack_ClearOrdered
    \/ PushBack_Push

SpecPush == InitPlus /\ [][NextPush]_vars

\* ------------------------------------- ThreadConditionals.h free functions
\* The unit driven through DoOrderedPause, DoUnorderedPause and DoUnpause
\* applied to its m_conditionalsPack; the worker is the same threadPoolFunc.

\* DoOrderedPause is called by thread t: conds.OrderedPausePack.UpdateState(true)
DoOrderedPause(t) ==
    /\ pc[t] = "idle"
    /\ UpdateState(OrderedPausePack, TRUE)
    /\ Goto(t, "dop_unordered")
    /\ IF t = "A"
          THEN /\ op' = "DoOrderedPause"
               /\ asked' = [asked EXCEPT ![OrderedPausePack] = TRUE, ![UnorderedPausePack] = FALSE]
               /\ second' = second
          ELSE /\ second' = "DoOrderedPause"
               /\ UNCHANGED <<op, asked>>
    /\ armed' = FALSE
    /\ unpaused' = FALSE
    /\ UNCHANGED <<stop_source, m_stopSource, stop_requested, m_workThreadObj, m_taskList,
                   workerVars, pauseReq, newTaskList, destroys, stalePasses, staleJobs, replaced,
                   atCall, unordSeen, jobsUnderUnord, invoked, created, poolVars, restVars>>

\* DoOrderedPause: conds.UnorderedPausePack.UpdateState(false)
DoOrderedPause_ClearUnordered(t) ==
    /\ pc[t] = "dop_unordered"
    /\ UpdateState(UnorderedPausePack, FALSE)
    /\ Goto(t, "do_notify")
    /\ jobsUnderUnord' = 0
    /\ UNCHANGED <<stop_source, m_stopSource, stop_requested, m_workThreadObj, m_taskList,
                   workerVars, callVars, histVars, atCall, unordSeen, invoked, unpaused, retVars, poolVars, restVars>>

\* DoUnorderedPause is called by thread t: conds.UnorderedPausePack.UpdateState(true)
DoUnorderedPause(t) ==
    /\ pc[t] = "idle"
    /\ UpdateState(UnorderedPausePack, TRUE)
    /\ Goto(t, "dup_ordered")
    /\ IF t = "A"
          THEN /\ op' = "DoUnorderedPause"
               /\ asked' = [asked EXCEPT ![OrderedPausePack] = FALSE, ![UnorderedPausePack] = TRUE]
               /\ second' = second
          ELSE /\ second' = "DoUnorderedPause"
               /\ UNCHANGED <<op, asked>>
    /\ armed' = FALSE
    /\ unpaused' = FALSE
    /\ unordSeen' = (unordSeen \/ InPass)
    /\ UNCHANGED <<stop_source, m_stopSource, stop_requested, m_workThreadObj, m_taskList,
                   workerVars, pauseReq, newTaskList, destroys, stalePasses, staleJobs, replaced,
                   atCall, jobsUnderUnord, invoked, created, poolVars, restVars>>

\* DoUnorderedPause: conds.OrderedPausePack.UpdateState(false)
DoUnorderedPause_ClearOrdered(t) ==
    /\ pc[t] = "dup_ordered"
    /\ UpdateState(OrderedPausePack, FALSE)
    /\ Goto(t, "do_notify")
    /\ UNCHANGED <<stop_source, m_stopSource, stop_requested, m_workThreadObj, m_taskList,
                   workerVars, callVars, histVars, obsVars, retVars, poolVars, restVars>>

\* DoUnpause is called by thread t: conds.UnorderedPausePack.UpdateState(false)
DoUnpause(t) ==
    /\ pc[t] = "idle"
    /\ UpdateState(UnorderedPausePack, FALSE)
    /\ Goto(t, "un_ordered")
    /\ IF t = "A"
          THEN /\ op' = "DoUnpause"
               /\ asked' = [p \in {OrderedPausePack, UnorderedPausePack} |-> FALSE]
               /\ second' = second
          ELSE /\ second' = "DoUnpause"
               /\ UNCHANGED <<op, asked>>
    /\ armed' = FALSE
    /\ unpaused' = (/\ GetPauseCompletionStatus
                    /\ pc["W"] \in {"either_wait_o", "either_wait_u",
                                    "unord_wait_o", "unord_wait_u"})
    /\ jobsUnderUnord' = 0
    /\ UNCHANGED <<stop_source, m_stopSource, stop_requested, m_workThreadObj, m_taskList,
                   workerVars, pauseReq, newTaskList, destroys, stalePasses, staleJobs, replaced,
                   atCall, unordSeen, invoked, created, poolVars, restVars>>

\* DoUnpause: conds.OrderedPausePack.UpdateState(false)
DoUnpause_ClearOrdered(t) ==
    /\ pc[t] = "un_ordered"
    /\ UpdateState(OrderedPausePack, FALSE)
    /\ Goto(t, "un_completed")
    /\ UNCHANGED <<stop_source, m_stopSource, stop_requested, m_workThreadObj, m_taskList,
                   workerVars, callVars, histVars, obsVars, retVars, poolVars, restVars>>

\* DoUnpause: conds.PauseCompletedPack.UpdateState(false)
DoUnpause_ClearCompleted(t) ==
    /\ pc[t] = "un_completed"
    /\ UpdateState(PauseCompletedPack, FALSE)
    /\ Goto(t, "do_notify")
    /\ UNCHANGED <<stop_source, m_stopSource, stop_requested, m_workThreadObj, m_taskList,
                   workerVars, callVars, histVars, obsVars, retVars, poolVars, restVars>>

\* conds.Notify(); the free function returns.
Do_Notify(t) ==
    /\ pc[t] = "do_notify"
    /\ phase' = Notify(phase)
    /\ Goto(t, "idle")
    /\ op' = IF t = "A" THEN "none" ELSE op
    /\ UNCHANGED <<unitVars, workerVars, pauseReq, newTaskList, histVars, obsVars, retVars, poolVars, restVars>>

\* ThreadConditionals::IsPausing
IsPausing == GetState(OrderedPausePack) \/ GetState(UnorderedPausePack)

\* ThreadConditionals::IsPauseCompleted
IsPauseCompleted == GetState(PauseCompletedPack)

\* IsWorking() of the unit: it has tasks, is not pausing and has not paused.
IsWorking == GetNumberOfTasks > 0 /\ ~IsPausing /\ ~IsPauseCompleted

\* A call of one of the three functions by thread t.
CondCall(t) ==
    \/ DoOrderedPause(t)
    \/ DoUnorderedPause(t)
    \/ DoUnpause(t)

\* A step of thread t inside one of the three functions.
CondStep(t) ==
    \/ DoOrderedPause_ClearUnordered(t)
    \/ DoUnorderedPause_ClearOrdered(t)
    \/ DoUnpause_ClearOrdered(t)
    \/ DoUnpause_ClearCompleted(t)
    \/ Do_Notify(t)

NextCond ==
    \/ threadPoolFunc
    \/ CondCall("A")
    \/ CondStep("A")
    \/ WaitForPauseCompleted("A")
    \/ \E t \in {"W", "A"} : SpuriousWake(t)

SpecCond == Init /\ [][NextCond]_vars

\* The same scheduling assumption as FairSpec.
FairSpecCond ==
    /\ SpecCond
    /\ SF_vars(threadPoolFunc)
    /\ SF_vars(CondStep("A"))
    /\ SF_vars(CallProgress("A"))

\* Two threads switching the pause mode of the same m_conditionalsPack: the
\* owner as in SpecCond, and thread B calling DoOrderedPause and
\* DoUnorderedPause at any time.
NextSwitch ==
    \/ NextCond
    \/ DoOrderedPause("B")
    \/ DoUnorderedPause("B")
    \/ CondStep("B")

SpecSwitch == Init /\ [][NextSwitch]_vars

\* ------------------------------------------------------------------ pools
\* A pool is an array of NumThreads units; the pool operations below read
\* each unit's GetNumberOfTasks() and add to one unit's task list, so the
\* pool's state is the task list of each unit.  What a push does to the
\* chosen unit's thread is the unit's own behaviour, modelled above.
unitSideVars == <<unitVars, workerVars, pc, phase, callVars, histVars, obsVars, retVars, restVars>>

\* The comparator ordering the units by descending task count.
Comp_Greater(lhs, rhs) == Len(lhs) > Len(rhs)

\* The lambda passed to std::min_element:
\* lhs.GetNumberOfTasks() < rhs.GetNumberOfTasks()
Comp(lhs, rhs) == Len(lhs) < Len(rhs)

RECURSIVE min_element_from(_, _, _)
\* std::min_element's loop: `smallest` moves only to a strictly smaller
\* element, so the first of equal minima is returned.
min_element_from(list, first, smallest) ==
    IF first > NumThreads
       THEN smallest
       ELSE min_element_from(list, first + 1,
                             IF Comp(list[first], list[smallest]) THEN first ELSE smallest)

\* std::min_element(list.begin(), list.end(), comp), as a unit index.
min_element(list) == min_element_from(list, 2, 1)

RECURSIVE push_infinite_task_scan(_, _, _)
\* impcool_thread_pool::push_infinite_task's loop over the zero-based index
\* i: if (taskCount < minIndex) minIndex = i.
push_infinite_task_scan(list, i, minIndex) ==
    IF i >= NumThreads
       THEN minIndex
       ELSE push_infinite_task_scan(list, i + 1,
                                    IF Len(list[i + 1]) < minIndex THEN i ELSE minIndex)

\* Number of jobs the pool holds.
RECURSIVE TaskCountUpTo(_, _)
TaskCountUpTo(list, n) == IF n = 0 THEN 0 ELSE Len(list[n]) + TaskCountUpTo(list, n - 1)

\* ThreadPooler::GetTaskCount
GetTaskCount == TaskCountUpTo(ThreadList, NumThreads)

\* ThreadPool::PushInfiniteTaskBack: minIt->PushInfiniteTaskBack(taskFn, args...);
\* the unit's push ends with CreateThread, so the unit has a thread afterwards.
ThreadPool_PushInfiniteTaskBack(taskFn) ==
    /\ poolClass = "ThreadPool"
    /\ fault = "none"
    /\ GetTaskCount < MaxPushes
    /\ LET minIt == min_element(ThreadList)
       IN  /\ ThreadList' = [ThreadList EXCEPT ![minIt] = Append(@, taskFn)]
           /\ running' = [running EXCEPT ![minIt] = TRUE]
    /\ poolOp' = "push"
    /\ UNCHANGED <<poolClass, taskFnList, fault, createResult, unitSideVars>>

\* ThreadPooler::PushApportionedTask: copy the chosen unit's task source,
\* push to the copy, set it as the unit's task source.
ThreadPooler_PushApportionedTask(taskFn) ==
    /\ poolClass = "ThreadPooler"
    /\ fault = "none"
    /\ GetTaskCount < MaxPushes
    /\ LET minIt == min_element(ThreadList)
           tempTaskList == ThreadList[minIt]
       IN  ThreadList' = [ThreadList EXCEPT ![minIt] = Append(tempTaskList, taskFn)]
    /\ poolOp' = "push"
    /\ UNCHANGED <<poolClass, taskFnList, fault, running, createResult, unitSideVars>>

\* impcool_thread_pool::push_infinite_task
push_infinite_task(task) ==
    /\ poolClass = "impcool_thread_pool"
    /\ fault = "none"
    /\ GetTaskCount < MaxPushes
    /\ LET minIndex == push_infinite_task_scan(ThreadList, 0, 0)
       IN  ThreadList' = [ThreadList EXCEPT ![minIndex + 1] = Append(@, task)]
    /\ poolOp' = "push"
    /\ UNCHANGED <<poolClass, taskFnList, fault, running, createResult, unitSideVars>>

\* A default-constructed pool of one of the three classes, beside a unit
\* that is left alone.
InitPool ==
    /\ UnitInit(<<>>)
    /\ \E class \in {"ThreadPool", "ThreadPooler", "impcool_thread_pool"} : PoolInit(class)
    /\ SourceInit(<<>>)

NextPool ==
    \/ \E taskFn \in JobIds : ThreadPool_PushInfiniteTaskBack(taskFn)
    \/ \E taskFn \in JobIds : ThreadPooler_PushApportionedTask(taskFn)
    \/ \E task \in JobIds : push_infinite_task(task)

SpecPool == InitPool /\ [][NextPool]_vars

\* ----------------------------------------------------------- apportionment
\* The bulk task sources passed to ResetInfiniteTaskArray.
BulkTaskLists == UNION {[1..n -> JobIds] : n \in 0..MaxBulk}

\* tempCount = taskCount / NumThreads; tasksPer = tempCount > 0 ? tempCount : 1
tasksPer(taskCount) ==
    LET tempCount == taskCount \div NumThreads
    IN  IF tempCount > 0 THEN tempCount ELSE 1

\* chunkedTasks.size() of TaskList | std::ranges::views::chunk(tasksPer):
\* the chunks have tasksPer elements each, the last one what is left.
chunkedTasks_size(taskCount) ==
    (taskCount + tasksPer(taskCount) - 1) \div tasksPer(taskCount)

\* tempChunk for the zero-based index i: the elements of chunkedTasks[i].
tempChunk(list, i) ==
    LET first == i * tasksPer(Len(list)) + 1
        last == (i + 1) * tasksPer(Len(list))
    IN  SubSeq(list, first, IF last < Len(list) THEN last ELSE Len(list))

\* ThreadPooler::ResetInfiniteTaskArray.  With at most NumThreads chunks the
\* loop sets the task source of the first chunkedTasks.size() units.  With
\* more chunks the assert fails in a build that keeps asserts and the
\* program aborts; in a build with NDEBUG the loop goes on to ThreadList[i]
\* for i >= NumThreads, an access outside the std::array, after it has set
\* the task source of every unit.
ThreadPooler_ResetInfiniteTaskArray(list) ==
    /\ poolClass = "ThreadPooler"
    /\ fault = "none"
    /\ poolOp' = "reset"
    /\ taskFnList' = list
    /\ LET size == chunkedTasks_size(Len(list))
       IN  IF size <= NumThreads
              THEN /\ ThreadList' = [i \in 1..NumThreads |->
                                        IF i <= size THEN tempChunk(list, i - 1) ELSE ThreadList[i]]
                   /\ fault' = "none"
              ELSE \/ /\ ThreadList' = ThreadList
                      /\ fault' = "assert"
                   \/ /\ ThreadList' = [i \in 1..NumThreads |-> tempChunk(list, i - 1)]
                      /\ fault' = "out_of_bounds"
    /\ UNCHANGED <<poolClass, running, createResult, unitSideVars>>

NextApportion ==
    \/ NextPool
    \/ \E list \in BulkTaskLists : ThreadPooler_ResetInfiniteTaskArray(list)

SpecApportion == InitPool /\ [][NextApportion]_vars

\* ------------------------------------------------ ThreadPool thread control
\* ThreadPool creates every unit's thread in its constructor; CreateAll and
\* DestroyAll act on all units, and GetThreadList() hands out the unit array
\* so that single units can be started and stopped.  A unit's CreateThread
\* returns false and changes nothing when the unit has a thread.

RECURSIVE CreateAll_from(_, _)
\* The loop of CreateAll from unit i on: return at the first unit whose
\* CreateThread() returns false.
CreateAll_from(run, i) ==
    IF i > NumThreads
       THEN run
       ELSE IF run[i]
               THEN run
               ELSE CreateAll_from([run EXCEPT ![i] = TRUE], i + 1)

\* ThreadPool::CreateAll
ThreadPool_CreateAll ==
    /\ poolClass = "ThreadPool"
    /\ running' = CreateAll_from(running, 1)
    /\ createResult' = (\A i \in 1..NumThreads : ~running[i])
    /\ poolOp' = "CreateAll"
    /\ UNCHANGED <<poolClass, ThreadList, taskFnList, fault, unitSideVars>>

\* ThreadPool::DestroyAll: every unit's DestroyThread, which clears its task list.
ThreadPool_DestroyAll ==
    /\ poolClass = "ThreadPool"
    /\ running' = [i \in 1..NumThreads |-> FALSE]
    /\ ThreadList' = [i \in 1..NumThreads |-> <<>>]
    /\ poolOp' = "DestroyAll"
    /\ UNCHANGED <<poolClass, taskFnList, fault, createResult, unitSideVars>>

\* (*GetThreadList())[i].CreateThread()
Unit_CreateThread(i) ==
    /\ poolClass = "ThreadPool"
    /\ running' = [running EXCEPT ![i] = TRUE]
    /\ poolOp' = "unit"
    /\ UNCHANGED <<poolClass, ThreadList, taskFnList, fault, createResult, unitSideVars>>

\* (*GetThreadList())[i].DestroyThread()
Unit_DestroyThread(i) ==
    /\ poolClass = "ThreadPool"
    /\ running' = [running EXCEPT ![i] = FALSE]
    /\ ThreadList' = [ThreadList EXCEPT ![i] = <<>>]
    /\ poolOp' = "unit"
    /\ UNCHANGED <<poolClass, taskFnList, fault, createResult, unitSideVars>>

NextThreads ==
    \/ \E taskFn \in JobIds : ThreadPool_PushInfiniteTaskBack(taskFn)
    \/ ThreadPool_CreateAll
    \/ ThreadPool_DestroyAll
    \/ \E i \in 1..NumThreads : Unit_CreateThread(i)
    \/ \E i \in 1..NumThreads : Unit_DestroyThread(i)

InitThreads ==
    /\ UnitInit(<<>>)
    /\ PoolInit("ThreadPool")
    /\ SourceInit(<<>>)

SpecThreads == InitThreads /\ [][NextThreads]_vars

\* ------------------------------------------------------------ SafeTaskSource
\* One SafeTaskSource object used by two threads: one calls the pushes and
\* ResetTaskList, the other takes snapshots with Get(), by copy construction
\* or by copy assignment from the object.  ResetTaskList holds m_taskMut
\* while it clears the list and appends the elements one by one; Get() copies
\* under m_taskMut; the copy constructor and operator= read other.m_taskList
\* without locking, so they can run while the mutex is held by the writer.
\* SafeTaskSource::PushInfiniteTaskBack: lock, emplace_back, unlock.
SafeTaskSource_PushInfiniteTaskBack(taskFn) ==
    /\ safePc = "idle" /\ m_taskMut = "free"
    /\ Len(safeTaskList) < MaxTasks
    /\ safeTaskList' = Append(safeTaskList, taskFn)
    /\ listBefore' = safeTaskList'
    /\ UNCHANGED <<m_taskMut, safePc, taskContainer, snapshot, snapBy, snapBefore, snapAfter,
                   unitVars, workerVars, pc, phase, callVars, histVars, obsVars, retVars,
                   isEitherPaused, poolVars>>

\* SafeTaskSource::PushInfiniteTaskFront: lock, emplace_front, unlock.
SafeTaskSource_PushInfiniteTaskFront(task) ==
    /\ safePc = "idle" /\ m_taskMut = "free"
    /\ Len(safeTaskList) < MaxTasks
    /\ safeTaskList' = <<task>> \o safeTaskList
    /\ listBefore' = safeTaskList'
    /\ UNCHANGED <<m_taskMut, safePc, taskContainer, snapshot, snapBy, snapBefore, snapAfter,
                   unitVars, workerVars, pc, phase, callVars, histVars, obsVars, retVars,
                   isEitherPaused, poolVars>>

\* SafeTaskSource::ResetTaskList(list) is called: Lock_t tempLock(m_taskMut)
ResetTaskList(list) ==
    /\ safePc = "idle" /\ m_taskMut = "free"
    /\ m_taskMut' = "writer"
    /\ taskContainer' = list
    /\ listBefore' = safeTaskList
    /\ safePc' = "rt_clear"
    /\ UNCHANGED <<safeTaskList, snapshot, snapBy, snapBefore, snapAfter,
                   unitVars, workerVars, pc, phase, callVars, histVars, obsVars, retVars,
                   isEitherPaused, poolVars>>

\* m_taskList = {}
ResetTaskList_Clear ==
    /\ safePc = "rt_clear"
    /\ safeTaskList' = <<>>
    /\ safePc' = "rt_fill"
    /\ UNCHANGED <<m_taskMut, taskContainer, listBefore, snapshot, snapBy, snapBefore, snapAfter,
                   unitVars, workerVars, pc, phase, callVars, histVars, obsVars, retVars,
                   isEitherPaused, poolVars>>

\* for (const auto& elem : taskContainer) m_taskList.emplace_back(elem)
ResetTaskList_EmplaceBack ==
    /\ safePc = "rt_fill"
    /\ Len(safeTaskList) < Len(taskContainer)
    /\ safeTaskList' = Append(safeTaskList, taskContainer[Len(safeTaskList) + 1])
    /\ UNCHANGED <<m_taskMut, safePc, taskContainer, listBefore, snapshot, snapBy, snapBefore, snapAfter,
                   unitVars, workerVars, pc, phase, callVars, histVars, obsVars, retVars,
                   isEitherPaused, poolVars>>

\* The loop has ended: tempLock is released and ResetTaskList returns.
ResetTaskList_Return ==
    /\ safePc = "rt_fill"
    /\ Len(safeTaskList) = Len(taskContainer)
    /\ m_taskMut' = "free"
    /\ safePc' = "idle"
    /\ listBefore' = safeTaskList
    /\ UNCHANGED <<safeTaskList, taskContainer, snapshot, snapBy, snapBefore, snapAfter,
                   unitVars, workerVars, pc, phase, callVars, histVars, obsVars, retVars,
                   isEitherPaused, poolVars>>

\* SafeTaskSource::Get: Lock_t tempLock(m_taskMut); return m_taskList
Get ==
    /\ m_taskMut = "free"
    /\ snapshot' = safeTaskList
    /\ snapBy' = "Get"
    /\ snapBefore' = listBefore
    /\ snapAfter' = IF safePc = "idle" THEN safeTaskList ELSE taskContainer
    /\ UNCHANGED <<m_taskMut, safeTaskList, safePc, taskContainer, listBefore,
                   unitVars, workerVars, pc, phase, callVars, histVars, obsVars, retVars,
                   isEitherPaused, poolVars>>

\* SafeTaskSource(const SafeTaskSource& other) : m_taskList{other.m_taskList}
\* and operator=(const SafeTaskSource& other): m_taskList = other.m_taskList,
\* with the modelled object as `other`; neither takes a lock.
CopyFrom(how) ==
    /\ snapshot' = safeTaskList
    /\ snapBy' = how
    /\ snapBefore' = listBefore
    /\ snapAfter' = IF safePc = "idle" THEN safeTaskList ELSE taskContainer
    /\ UNCHANGED <<m_taskMut, safeTaskList, safePc, taskContainer, listBefore,
                   unitVars, workerVars, pc, phase, callVars, histVars, obsVars, retVars,
                   isEitherPaused, poolVars>>

NextSource ==
    \/ \E taskFn \in JobIds : SafeTaskSource_PushInfiniteTaskBack(taskFn)
    \/ \E task \in JobIds : SafeTaskSource_PushInfiniteTaskFront(task)
    \/ \E list \in TaskContainer_t : ResetTaskList(list)
    \/ ResetTaskList_Clear
    \/ ResetTaskList_EmplaceBack
    \/ ResetTaskList_Return
    \/ Get
    \/ CopyFrom("copy")
    \/ CopyFrom("assign")

InitSource ==
    /\ UnitInit(<<>>)
    /\ PoolInit("ThreadPool")
    /\ \E taskList \in TaskContainer_t : SourceInit(taskList)

SpecSource == InitSource /\ [][NextSource]_vars

\* ------------------------------------------- impcool_thread_unit.h ThreadUnit
\* The flag-based unit: m_isStopRequested is an atomic bool (stop_requested),
\* the three bool_cv_pack members are m_isOrderedPauseRequested,
\* m_isUnorderedPauseRequested and m_isPauseCompleted (is_condition_true of
\* the three packs), and the thread reads m_taskListPtr (m_taskList) through
\* a reference.  bool_cv_pack has no stop source: its waits end on the flag
\* alone.  The owner calls the pause setters, WaitForPauseCompleted,
\* CreateThread, SetTaskList and DestroyThread.
flagFrame == <<stop_source, m_stopSource, tasks, pauseReq, histVars, obsVars, retVars, poolVars, restVars>>

\* while (!m_isStopRequested.load())
ThreadUnit_While ==
    /\ pc["W"] = "f_while"
    /\ Goto("W", IF stop_requested THEN "returned" ELSE "f_for")
    /\ UNCHANGED <<is_condition_true, phase, stop_requested, m_workThreadObj, m_taskList, idx,
                   op, newTaskList, flagFrame>>

\* if (tasks.empty()) sleep_for(EmptyWaitTime); the range-for begins.
ThreadUnit_BeginPass ==
    /\ pc["W"] = "f_for"
    /\ IF m_taskList = <<>>
          THEN Goto("W", "tfp_o_test") /\ idx' = 0
          ELSE Goto("W", "in_job") /\ idx' = 1
    /\ UNCHANGED <<is_condition_true, phase, stop_requested, m_workThreadObj, m_taskList,
                   op, newTaskList, flagFrame>>

\* currentTask() returns.
ThreadUnit_JobReturns ==
    /\ pc["W"] = "in_job"
    /\ Goto("W", "f_stop_test")
    /\ UNCHANGED <<is_condition_true, phase, stop_requested, m_workThreadObj, m_taskList, idx,
                   op, newTaskList, flagFrame>>

\* if (m_isStopRequested.load()) break;
ThreadUnit_StopTest ==
    /\ pc["W"] = "f_stop_test"
    /\ Goto("W", IF stop_requested THEN "tfp_o_test" ELSE "tfp_u_test")
    /\ UNCHANGED <<is_condition_true, phase, stop_requested, m_workThreadObj, m_taskList, idx,
                   op, newTaskList, flagFrame>>

\* TestForPause(m_isUnorderedPauseRequested): if (pauseObj.GetState())
ThreadUnit_TestUnordered ==
    /\ pc["W"] = "tfp_u_test"
    /\ IF GetState(UnorderedPausePack)
          THEN Goto("W", "tfp_u_set") /\ idx' = idx
          ELSE Goto("W", IF idx < Len(m_taskList) THEN "in_job" ELSE "tfp_o_test") /\ idx' = IF idx < Len(m_taskList) THEN idx + 1 ELSE 0
    /\ UNCHANGED <<is_condition_true, phase, stop_requested, m_workThreadObj, m_taskList,
                   op, newTaskList, flagFrame>>

\* TestForPause: m_isPauseCompleted.UpdateState(true)
ThreadUnit_SetCompleted ==
    /\ pc["W"] \in {"tfp_u_set", "tfp_o_set"}
    /\ UpdateState(PauseCompletedPack, TRUE)
    /\ Goto("W", IF pc["W"] = "tfp_u_set" THEN "tfp_wait_u" ELSE "tfp_wait_o")
    /\ UNCHANGED <<stop_requested, m_workThreadObj, m_taskList, idx, op, newTaskList, flagFrame>>

\* TestForPause(m_isUnorderedPauseRequested): pauseObj.WaitForFalse(), which
\* is m_conditionVar.wait(lock, [&]() { return !is_condition_true; })
ThreadUnit_WaitUnordered ==
    /\ pc["W"] = "tfp_wait_u"
    /\ CvWaitTest("W", UnorderedPausePack, ~is_condition_true[UnorderedPausePack], "tfp_u_clear")
    /\ UNCHANGED <<is_condition_true, stop_requested, m_workThreadObj, m_taskList, idx,
                   op, newTaskList, flagFrame>>

\* TestForPause(m_isOrderedPauseRequested): pauseObj.WaitForFalse()
ThreadUnit_WaitOrdered ==
    /\ pc["W"] = "tfp_wait_o"
    /\ CvWaitTest("W", OrderedPausePack, ~is_condition_true[OrderedPausePack], "tfp_o_clear")
    /\ UNCHANGED <<is_condition_true, stop_requested, m_workThreadObj, m_taskList, idx,
                   op, newTaskList, flagFrame>>

\* TestForPause: m_isPauseCompleted.UpdateState(false); the loop goes on.
ThreadUnit_ClearCompleted ==
    /\ pc["W"] \in {"tfp_u_clear", "tfp_o_clear"}
    /\ UpdateState(PauseCompletedPack, FALSE)
    /\ IF pc["W"] = "tfp_u_clear"
          THEN Goto("W", IF idx < Len(m_taskList) THEN "in_job" ELSE "tfp_o_test") /\ idx' = IF idx < Len(m_taskList) THEN idx + 1 ELSE 0
          ELSE Goto("W", "f_while") /\ idx' = idx
    /\ UNCHANGED <<stop_requested, m_workThreadObj, m_taskList, op, newTaskList, flagFrame>>

\* TestForPause(m_isOrderedPauseRequested) after the range-for.
ThreadUnit_TestOrdered ==
    /\ pc["W"] = "tfp_o_test"
    /\ Goto("W", IF GetState(OrderedPausePack) THEN "tfp_o_set" ELSE "f_while")
    /\ UNCHANGED <<is_condition_true, phase, stop_requested, m_workThreadObj, m_taskList, idx,
                   op, newTaskList, flagFrame>>

\* ThreadUnit::threadPoolFunc
ThreadUnit_threadPoolFunc ==
    \/ ThreadUnit_While
    \/ ThreadUnit_BeginPass
    \/ ThreadUnit_JobReturns
    \/ ThreadUnit_StopTest
    \/ ThreadUnit_TestUnordered
    \/ ThreadUnit_SetCompleted
    \/ ThreadUnit_WaitUnordered
    \/ ThreadUnit_WaitOrdered
    \/ ThreadUnit_ClearCompleted
    \/ ThreadUnit_TestOrdered
    \/ (pc["W"] \in {"tfp_wait_u", "tfp_wait_o"} /\ CvBlock("W"))

\* ThreadUnit::SetPauseValueOrdered
ThreadUnit_SetPauseValueOrdered(enablePause) ==
    /\ pc["A"] = "idle"
    /\ IF enablePause /\ GetState(UnorderedPausePack)
          THEN UNCHANGED <<is_condition_true, phase>>
          ELSE UpdateState(OrderedPausePack, enablePause)
    /\ UNCHANGED <<pc, stop_requested, m_workThreadObj, m_taskList, idx, op, newTaskList, flagFrame>>

\* ThreadUnit::SetPauseValueUnordered
ThreadUnit_SetPauseValueUnordered(enablePause) ==
    /\ pc["A"] = "idle"
    /\ IF enablePause /\ GetState(OrderedPausePack)
          THEN UNCHANGED <<is_condition_true, phase>>
          ELSE UpdateState(UnorderedPausePack, enablePause)
    /\ UNCHANGED <<pc, stop_requested, m_workThreadObj, m_taskList, idx, op, newTaskList, flagFrame>>

\* ThreadUnit::CreateThread
ThreadUnit_CreateThread ==
    /\ pc["A"] = "idle"
    /\ IF m_workThreadObj = nullptr
          THEN /\ stop_requested' = FALSE
               /\ m_workThreadObj' = Thread_t
               /\ pc' = [pc EXCEPT !["W"] = "f_while"]
               /\ idx' = 0
          ELSE UNCHANGED <<stop_requested, m_workThreadObj, pc, idx>>
    /\ UNCHANGED <<is_condition_true, phase, m_taskList, op, newTaskList, flagFrame>>

\* ThreadUnit::DestroyThread is called: the first SetPauseValueOrdered(false)
ThreadUnit_DestroyThread ==
    /\ pc["A"] = "idle"
    /\ op' = "DestroyThread"
    /\ UpdateState(OrderedPausePack, FALSE)
    /\ Goto("A", "f_again")
    /\ UNCHANGED <<stop_requested, m_workThreadObj, m_taskList, idx, newTaskList, flagFrame>>

\* DestroyThread: SetPauseValueOrdered(false), a second time
ThreadUnit_DestroyThread_ClearAgain ==
    /\ pc["A"] = "f_again"
    /\ UpdateState(OrderedPausePack, FALSE)
    /\ Goto("A", "f_sd")
    /\ UNCHANGED <<stop_requested, m_workThreadObj, m_taskList, idx, op, newTaskList, flagFrame>>

\* ThreadUnit::SetTaskList(list) is called.
ThreadUnit_SetTaskList(list) ==
    /\ pc["A"] = "idle"
    /\ op' = "SetTaskList"
    /\ newTaskList' = list
    /\ Goto("A", "f_sd")
    /\ UNCHANGED <<is_condition_true, phase, stop_requested, m_workThreadObj, m_taskList, idx, flagFrame>>

\* ThreadUnit::StartDestruction: m_isStopRequested.store(true)
ThreadUnit_StartDestruction ==
    /\ pc["A"] = "f_sd"
    /\ stop_requested' = TRUE
    /\ Goto("A", "f_wd")
    /\ UNCHANGED <<is_condition_true, phase, m_workThreadObj, m_taskList, idx, op, newTaskList, flagFrame>>

\* ThreadUnit::WaitForDestruction: join() and reset(), or nothing to join.
ThreadUnit_WaitForDestruction ==
    /\ pc["A"] = "f_wd"
    /\ m_workThreadObj # nullptr => pc["W"] = "returned"
    /\ m_workThreadObj' = nullptr
    /\ pc' = [pc EXCEPT !["A"] = IF op = "DestroyThread" THEN "f_clear" ELSE "f_assign",
                        !["W"] = "none"]
    /\ idx' = 0
    /\ UNCHANGED <<is_condition_true, phase, stop_requested, m_taskList, op, newTaskList, flagFrame>>

\* DestroyThread: m_taskListPtr = {}
ThreadUnit_DestroyThread_Clear ==
    /\ pc["A"] = "f_clear"
    /\ m_taskList' = <<>>
    /\ Goto("A", "idle")
    /\ op' = "none"
    /\ UNCHANGED <<is_condition_true, phase, stop_requested, m_workThreadObj, idx, newTaskList, flagFrame>>

\* SetTaskList: m_taskListPtr = newTaskList; CreateThread()
ThreadUnit_SetTaskList_Assign ==
    /\ pc["A"] = "f_assign"
    /\ m_taskList' = newTaskList
    /\ stop_requested' = FALSE
    /\ m_workThreadObj' = Thread_t
    /\ pc' = [pc EXCEPT !["A"] = "idle", !["W"] = "f_while"]
    /\ idx' = 0
    /\ op' = "none"
    /\ UNCHANGED <<is_condition_true, phase, newTaskList, flagFrame>>

\* Steps of a ThreadUnit call in progress.
ThreadUnit_Step ==
    \/ ThreadUnit_DestroyThread_ClearAgain
    \/ ThreadUnit_StartDestruction
    \/ ThreadUnit_WaitForDestruction
    \/ ThreadUnit_DestroyThread_Clear
    \/ ThreadUnit_SetTaskList_Assign

\* The state after ThreadUnit() has been constructed: CreateThread() has
\* started the thread on an empty task list; no pool or task source is in use.
ThreadUnitInit ==
    /\ m_taskList = <<>>
    /\ tasks = <<>>
    /\ idx = 0
    /\ is_condition_true = [p \in Packs |-> FALSE]
    /\ stop_source = [p \in Packs |-> nostopstate]
    /\ m_stopSource = nostopstate
    /\ stop_requested = FALSE
    /\ m_workThreadObj = Thread_t
    /\ pc = [t \in Threads |-> IF t = "W" THEN "f_while" ELSE "idle"]
    /\ phase = [t \in Threads |-> "run"]
    /\ pauseReq = [t \in Callers |-> FALSE]
    /\ op = "none"
    /\ newTaskList = <<>>
    /\ destroys = 0 /\ stalePasses = 0 /\ staleJobs = 0
    /\ replaced = FALSE
    /\ asked = [p \in {OrderedPausePack, UnorderedPausePack} |-> FALSE]
    /\ armed = FALSE
    /\ atCall = NoCall
    /\ unordSeen = FALSE
    /\ jobsUnderUnord = 0
    /\ invoked = <<>>
    /\ unpaused = FALSE
    /\ created = FALSE
    /\ second = "none"
    /\ isEitherPaused = FALSE
    /\ PoolInit("ThreadPool")
    /\ SourceInit(<<>>)

NextFlag ==
    \/ ThreadUnit_threadPoolFunc
    \/ \E b \in BOOLEAN : ThreadUnit_SetPauseValueOrdered(b)
    \/ \E b \in BOOLEAN : ThreadUnit_SetPauseValueUnordered(b)
    \/ ThreadUnit_CreateThread
    \/ ThreadUnit_DestroyThread
    \/ \E list \in TaskContainer_t : ThreadUnit_SetTaskList(list)
    \/ ThreadUnit_Step
    \/ SpuriousWake("W")

\* Scheduling: the worker and a call in progress advance whenever they can;
\* jobs terminate.
FairSpecFlag ==
    /\ ThreadUnitInit
    /\ [][NextFlag]_vars
    /\ SF_vars(ThreadUnit_threadPoolFunc)
    /\ SF_vars(ThreadUnit_Step)

\* ------------------------------------------------------------------ claims
\* C1: whenever the pause-completed flag is true, the worker thread is not
\* inside a job invocation.
C1_PauseCompletedImpliesIdle == GetPauseCompletionStatus => pc["W"] # "in_job"

\* C2: every DestroyThread() call eventually returns, whatever the worker
\* was doing when the stop was requested.
C2_DestroyEventuallyReturns == (op = "DestroyThread") ~> (op # "DestroyThread")

\* C3: when a thread is inside WaitForPauseCompleted() while DestroyThread()
\* is called, the external wait eventually returns and the worker loop
\* eventually returns.
C3_DestroyReleasesWaiter ==
    /\ (op = "DestroyThread" /\ pc["B"] = "wfpc_wait") ~> (pc["B"] = "idle")
    /\ (op = "DestroyThread" /\ pc["B"] = "wfpc_wait") ~> (pc["W"] \in {"returned", "none"})

\* C4: immediately after any pause setter call returns, at most one of the
\* ordered-requested and unordered-requested flags is true.
C4_MutualExclusionAfterCall ==
    pc["A"] = "idle" => ~(GetState(OrderedPausePack) /\ GetState(UnorderedPausePack))

\* C5: a WaitForPauseCompleted() called on a running unit after a pause
\* request that was not cleared returns with the pause-completed flag true.
C5_WaitReturnsPaused ==
    [][(pc["A"] = "wfpc_ret" /\ armed /\ pc'["A"] = "idle") => GetPauseCompletionStatus']_vars

\* C6: after SetTaskSource(S2) returns, the worker begins at most one more
\* pass over the replaced list.
C6_AtMostOneStalePass == stalePasses <= 1

C6_Witness ==
    /\ replaced /\ op = "none" /\ IsRunning
    /\ pc["W"] = "in_job" /\ idx = Len(tasks) /\ tasks = m_taskList

\* C7: after SetTaskSource(S2) returns, at most one more job of the replaced
\* list is invoked.
C7_AtMostOneStaleJob == staleJobs <= 1

C7_Witness ==
    /\ replaced /\ op = "none" /\ IsRunning
    /\ pc["W"] = "in_job" /\ idx = 1 /\ tasks = newTaskList /\ staleJobs = 0

\* C8: after a second DestroyThread() in a row the thread is absent, the task
\* list is empty and the pause-completed flag is false.
C8_SecondDestroyLeavesCleanUnit ==
    (destroys >= 2 /\ op = "none") =>
        (m_workThreadObj = nullptr /\ GetNumberOfTasks = 0 /\ ~GetPauseCompletionStatus)

\* C9: after DestroyThread() returns, the pause-completed flag is false.
C9_DestroyClearsPauseCompleted ==
    (destroys >= 1 /\ op = "none") => ~GetPauseCompletionStatus

\* C10: from the return of DestroyThread() until the unit is recreated, the
\* unit has no thread, IsRunning() is false, GetNumberOfTasks() is 0 and no
\* job is being invoked.
C10_DestroyClearsUnit ==
    destroys >= 1 =>
        /\ m_workThreadObj = nullptr
        /\ ~IsRunning
        /\ GetNumberOfTasks = 0
        /\ pc["W"] = "none"

C10_Witness ==
    /\ destroys = 1 /\ op = "none"
    /\ newTaskList # <<>>
    /\ m_workThreadObj = nullptr /\ m_taskList = <<>>

\* C11: whenever SetTaskSource(S) returns, whatever the unit was before
\* (running, paused, destroyed once or twice), the unit is running, its task
\* count is the number of jobs in S, and the pause-completed flag is false
\* when no pause is requested.
C11_RecreatedUnitRuns ==
    [][(op = "SetTaskSource" /\ op' = "none") =>
          /\ IsRunning'
          /\ GetNumberOfTasks' = Len(newTaskList)
          /\ (~GetState(OrderedPausePack)' /\ ~GetState(UnorderedPausePack)')
                 => ~GetPauseCompletionStatus']_vars

C11_Witness ==
    /\ op = "SetTaskSource" /\ pc["A"] = "ct_packs"
    /\ atCall.destroys = 2
    /\ newTaskList # <<>>
    /\ m_workThreadObj # nullptr

\* C12: when SetTaskSource is called on a unit whose pause has completed,
\* then on its return the pause-requested flags are what they were at the
\* call and the pause-completed flag is still true.
C12_ReplacementKeepsPause ==
    [][(/\ op = "SetTaskSource" /\ op' = "none"
        /\ atCall.flags[PauseCompletedPack]
        /\ (atCall.flags[OrderedPausePack] \/ atCall.flags[UnorderedPausePack])) =>
          /\ GetPauseCompletionStatus'
          /\ GetState(OrderedPausePack)' = atCall.flags[OrderedPausePack]
          /\ GetState(UnorderedPausePack)' = atCall.flags[UnorderedPausePack]]_vars

\* C13: during a pass in which no unordered pause was requested, the
\* pause-completed flag never becomes true, and the worker leaves the pass
\* only after it invoked every job of its snapshot (or because a stop was
\* requested).
C13_OrderedPauseKeepsPass ==
    [][(InPass /\ ~unordSeen) =>
          /\ GetPauseCompletionStatus' => GetPauseCompletionStatus
          /\ ~InPass' => (stop_requested \/ (pc["W"] = "in_job" /\ invoked = tasks))]_vars

C13_Witness ==
    /\ pc["W"] = "stop_test" /\ idx = 2
    /\ GetState(OrderedPausePack) /\ ~GetState(UnorderedPausePack)
    /\ ~unordSeen /\ ~GetPauseCompletionStatus /\ ~stop_requested

C15_PausedMeansNoProgress ==
    [][(armed /\ op = "none" /\ pc["W"] # "in_job") => pc'["W"] # "in_job"]_vars

\* C17: a worker thread is only started once the previous one has been
\* joined, so at most one threadPoolFunc runs and at most one job of the
\* unit is being invoked.
C17_SingleWorker ==
    pc["A"] = "ct_make" => (pc["W"] = "none" /\ m_workThreadObj = nullptr)

C17_Witness ==
    /\ pc["A"] = "ct_make" /\ replaced
    /\ pc["W"] = "none" /\ tasks # <<>>

\* C16: after DoUnpause() returned from a call made on a paused unit, and
\* until the next pause request, both pause-requested flags and the
\* pause-completed flag are false, and with a non-empty task list the worker
\* eventually invokes a job again.
C16_UnpauseResumes ==
    /\ []((unpaused /\ op = "none") =>
             /\ ~GetState(OrderedPausePack)
             /\ ~GetState(UnorderedPausePack)
             /\ ~GetPauseCompletionStatus)
    /\ (unpaused /\ op = "none" /\ tasks # <<>>) ~> (pc["W"] = "in_job" \/ ~unpaused)

\* C18: the jobs invoked in a pass are the snapshot's jobs in list order,
\* each once; a step of the worker never changes the task list or its
\* snapshot; and while the unit stays running with no pause requested and no
\* call in progress, every job of the list is invoked again and again.
C18_TasksRunInListOrder ==
    /\ [](pc["W"] = "in_job" => invoked = SubSeq(tasks, 1, idx))
    /\ [][(pc["W"] = "in_job" /\ pc'["W"] = "while_test") => invoked = tasks]_vars
    /\ [][threadPoolFunc => UNCHANGED <<tasks, m_taskList>>]_vars
    /\ \A k \in 1..MaxTasks :
          (Quiet /\ k <= Len(tasks)) ~> ((pc["W"] = "in_job" /\ idx = k) \/ ~Quiet)

C18_Witness ==
    /\ Quiet
    /\ pc["W"] = "in_job"
    /\ idx = 2 /\ tasks = <<2, 1>> /\ invoked = tasks

\* C19: in a ThreadPool or ThreadPooler that started empty and was only
\* pushed to, one job at a time, the largest per-unit task count exceeds the
\* smallest by at most 1 after every push.
C19_LoadBalanced ==
    poolClass \in {"ThreadPool", "ThreadPooler"} =>
        \A i, j \in 1..NumThreads : Len(ThreadList[i]) <= Len(ThreadList[j]) + 1

C19_Witness ==
    /\ poolClass = "ThreadPooler"
    /\ GetTaskCount > NumThreads
    /\ \E i, j \in 1..NumThreads : Len(ThreadList[i]) = Len(ThreadList[j]) + 1

\* C20: every pool push appends one job to the unit with the minimal task
\* count, the lowest index among ties, and leaves every other unit's task
\* list unchanged.
C20_PushTarget ==
    [][ThreadList' # ThreadList =>
          LET target == CHOOSE i \in 1..NumThreads :
                            /\ \A j \in 1..NumThreads : Len(ThreadList[i]) <= Len(ThreadList[j])
                            /\ \A j \in 1..(i - 1) : Len(ThreadList[j]) > Len(ThreadList[i])
          IN  /\ Len(ThreadList'[target]) = Len(ThreadList[target]) + 1
              /\ SubSeq(ThreadList'[target], 1, Len(ThreadList[target])) = ThreadList[target]
              /\ \A i \in 1..NumThreads : i # target => ThreadList'[i] = ThreadList[i]]_vars

\* C21: after ResetInfiniteTaskArray with a bulk source of T jobs the call
\* has completed and the per-unit task counts sum to T.
C21_ApportionmentLosesNoJob ==
    poolOp = "reset" => (fault = "none" /\ GetTaskCount = Len(taskFnList))

\* C22: after ResetInfiniteTaskArray every unit whose index is at or beyond
\* the chunk count holds an empty task source.
C22_ApportionmentReplacesEveryUnit ==
    (poolOp = "reset" /\ fault = "none") =>
        \A i \in 1..NumThreads : i > chunkedTasks_size(Len(taskFnList)) => ThreadList[i] = <<>>

\* C23: while a SetTaskSource call is in progress, the caller is never at
\* the join of WaitForDestruction with the worker inside a job invocation:
\* the call does not wait for an in-flight job to finish.
C23_ProducerNeverWaitsForJob ==
    ~(op = "SetTaskSource" /\ pc["A"] = "wd" /\ m_workThreadObj # nullptr /\ pc["W"] = "in_job")

C25_IsWorkingStatus ==
    /\ [](GetNumberOfTasks = 0 => ~IsWorking)
    /\ [][(op \in {"DoOrderedPause", "DoUnorderedPause"} /\ op' = "none") => ~IsWorking']_vars

\* C26: when the owner's last call and thread B's last call are both pause
\* calls and both have returned, exactly one of the two pause-requested
\* flags is true.
C26_SwitchLeavesOneRequest ==
    (/\ pc["A"] = "idle" /\ pc["B"] = "idle" /\ op = "none"
     /\ (asked[OrderedPausePack] \/ asked[UnorderedPausePack])
     /\ second \in {"DoOrderedPause", "DoUnorderedPause"}) =>
        GetState(OrderedPausePack) # GetState(UnorderedPausePack)

\* C27: the ordered-requested and unordered-requested flags are never both
\* true, in any state, including the states inside a pause-mode switch.
C27_NeverBothRequested ==
    ~(GetState(OrderedPausePack) /\ GetState(UnorderedPausePack))

\* C28: a step of a CreateThread() call made on a unit that has a thread
\* changes none of the thread object, the stop sources, the stop request,
\* the task list and the three pause flags; the call returns false; and
\* CreateThread() returns true exactly when the unit had no thread at the
\* call, having started one.
C28_CreateOnRunningUnitIsNoOp ==
    /\ [][(/\ pc'["A"] # pc["A"]
           /\ m_workThreadObj # nullptr
           /\ \/ pc["A"] = "idle" /\ op' = "CreateThread"
              \/ op = "CreateThread" /\ atCall.thread # nullptr) =>
             /\ UNCHANGED unitVars
             /\ op = "CreateThread" => (op' = "none" /\ ~created')]_vars
    /\ [][(op = "CreateThread" /\ op' = "none") =>
             /\ created' <=> (atCall.thread = nullptr)
             /\ created' => (m_workThreadObj' # nullptr /\ pc'["W"] # "none")]_vars

C28_Witness ==
    /\ op = "CreateThread" /\ pc["A"] = "ct_completed"
    /\ atCall.thread # nullptr /\ m_workThreadObj # nullptr
    /\ GetState(OrderedPausePack) /\ GetState(PauseCompletedPack)
    /\ m_taskList # <<>>

\* C29: the worker leaves WaitForBothPauseRequestsFalse only when both
\* pause-requested flags are false or a stop has been requested.
C29_LeavesCheckpointOnlyUnrequested ==
    [][(/\ pc["W"] \in {"either_wait_u", "unord_wait_u"}
        /\ pc'["W"] \in {"either_clear", "unord_clear"}) =>
          \/ ~GetState(OrderedPausePack) /\ ~GetState(UnorderedPausePack)
          \/ stop_requested]_vars

\* C30: whenever the worker is blocked inside a pause checkpoint waiting for
\* the pause requests to clear, the pause-completed flag is true.
C30_BlockedInCheckpointMeansCompleted ==
    (/\ pc["W"] \in {"either_wait_o", "either_wait_u", "unord_wait_o", "unord_wait_u"}
     /\ phase["W"] = "blocked") => GetPauseCompletionStatus

\* C35: the assertion of ResetInfiniteTaskArray holds for every input: the
\* chunk count of the bulk source is at most NumThreads and the call ends
\* without a failed assertion or an access outside the pool.
C35_ChunkCountWithinPool ==
    poolOp = "reset" =>
        /\ chunkedTasks_size(Len(taskFnList)) <= NumThreads
        /\ fault = "none"

\* C36: whenever the chunk count does not exceed NumThreads, unit i (from 0)
\* holds exactly the jobs at positions [i*perUnit, min((i+1)*perUnit, T)) of
\* the bulk source, and the units' task lists concatenated in index order
\* are the bulk source.
C36_ApportionmentKeepsOrder ==
    (poolOp = "reset" /\ fault = "none") =>
        LET T == Len(taskFnList)
            perUnit == IF T \div NumThreads > 0 THEN T \div NumThreads ELSE 1
            chunks == (T + perUnit - 1) \div perUnit
            upper(i) == IF (i + 1) * perUnit < T THEN (i + 1) * perUnit ELSE T
        IN  /\ \A i \in 0..(chunks - 1) :
                  /\ Len(ThreadList[i + 1]) = upper(i) - i * perUnit
                  /\ \A k \in 1..Len(ThreadList[i + 1]) :
                        ThreadList[i + 1][k] = taskFnList[i * perUnit + k]
            /\ \A i \in 1..NumThreads :
                  \A k \in 1..Len(ThreadList[i]) :
                      /\ TaskCountUpTo(ThreadList, i - 1) + k <= T
                      /\ ThreadList[i][k] = taskFnList[TaskCountUpTo(ThreadList, i - 1) + k]
            /\ GetTaskCount = T

C33_WaitReturnsOnPredicate ==
    /\ [][\A t \in Callers :
            (pc[t] = "wfpc_wait" /\ pc'[t] # "wfpc_wait")
               => (is_condition_true[PauseCompletedPack]
                   \/ (stop_source[PauseCompletedPack] # nostopstate
                       /\ StopRequestedOf(stop_source[PauseCompletedPack])))]_vars
    /\ [][(pc["W"] \in {"either_wait_o", "unord_wait_o"} /\ pc'["W"] # pc["W"])
            => (~is_condition_true[OrderedPausePack]
                \/ (stop_source[OrderedPausePack] # nostopstate
                    /\ StopRequestedOf(stop_source[OrderedPausePack])))]_vars
    /\ [][(pc["W"] \in {"either_wait_u", "unord_wait_u"} /\ pc'["W"] # pc["W"])
            => (~is_condition_true[UnorderedPausePack]
                \/ (stop_source[UnorderedPausePack] # nostopstate
                    /\ StopRequestedOf(stop_source[UnorderedPausePack])))]_vars
    /\ [][\A t \in Threads : phase[t] # "run" => pc'[t] = pc[t]]_vars

\* WaitForTrue has returned to the second caller on cancellation, with the
\* flag false.
C33_Witness ==
    /\ pc["B"] = "wfpc_ret"
    /\ ~is_condition_true[PauseCompletedPack]
    /\ stop_source[PauseCompletedPack] # nostopstate
    /\ StopRequestedOf(stop_source[PauseCompletedPack])

\* C32: when SetTaskSource(S2) is called while the worker is blocked in a
\* completed pause, every job the worker begins from the call on is a job of
\* a snapshot of S2, and once the call has returned a job in progress is a
\* job of the unit's current list: no job of the old source is invoked after
\* the pause, before or after an unpause.
C32_ReplacementDuringPause ==
    /\ [][(op = "SetTaskSource" /\ atCall.paused /\ pc'["W"] = "in_job" /\ pc["W"] # "in_job")
            => (tasks' = newTaskList /\ m_taskList' = newTaskList)]_vars
    /\ [][(op = "SetTaskSource" /\ atCall.paused /\ op' = "none")
            => (m_taskList' = newTaskList /\ tasks' = newTaskList)]_vars
    /\ [](op = "none" /\ pc["W"] \in {"stop_test", "in_job"} => tasks = m_taskList)

\* The source was replaced by a different one while the worker was blocked in
\* a completed pause, and the worker is in the first job of the new source.
C32_Witness ==
    /\ op = "SetTaskSource" /\ atCall.paused
    /\ pc["W"] = "in_job" /\ idx = 1
    /\ tasks = newTaskList
    /\ Len(newTaskList) = 2 /\ newTaskList[1] # newTaskList[2]

\* C39: ThreadUnitPlus::PushInfiniteTaskBack returns with a pause requested
\* exactly if a pause was requested when it was called, and when a pause was
\* requested the recreated worker begins no job during the call.
C39_PushKeepsPauseState ==
    /\ [][(op = "PushInfiniteTaskBack" /\ op' = "none")
            => ((atCall.flags[OrderedPausePack] \/ atCall.flags[UnorderedPausePack])
                = (is_condition_true'[OrderedPausePack] \/ is_condition_true'[UnorderedPausePack]))]_vars
    /\ [][(/\ op = "PushInfiniteTaskBack"
           /\ atCall.flags[OrderedPausePack] \/ atCall.flags[UnorderedPausePack]
           /\ pc["A"] \in {"ct_stop", "ct_packs"}
           /\ pc'["W"] = "in_job")
            => pc["W"] = "in_job"]_vars

\* C37: after ThreadPool::CreateAll() has returned, every unit of the pool
\* has a thread, whichever units had one before the call.
C37_CreateAllStartsEveryUnit ==
    poolOp = "CreateAll" => \A i \in 1..NumThreads : running[i]

\* C34: a snapshot of a SafeTaskSource's job list, taken by Get(), by copy
\* construction or by copy assignment while another thread pushes or replaces
\* the list, equals the list before or after that whole operation.
C34_SnapshotIsWholeList ==
    snapBy # "none" => snapshot \in {snapBefore, snapAfter}

\* C38: in the flag-based unit every ThreadUnit::DestroyThread() call
\* returns, whichever pause the worker is blocked in when it is called.
C38_FlagDestroyReturns == (op = "DestroyThread") ~> (op # "DestroyThread")

====
